---------------------------- MODULE Spec2Model ----------------------------
(***************************************************************************)
(* A model of the hotkey registration manager and hotkey matching          *)
(* (src/src/hotkey.rs), of the pixel / scale-factor arithmetic             *)
(* (src/src/dpi.rs), of the menu bridges of the three desktop platforms    *)
(* (src/src/platform_impl/{linux,windows,macos}/menu.rs), of the status    *)
(* bar (src/src/status_bar.rs, src/src/platform_impl/linux/status_bar.rs)  *)
(* and of src/src/platform_impl/windows/minimal_ime.rs.                    *)
(*                                                                         *)
(* Six specifications share the variables:                                 *)
(*   SpecHotKey  the HotKeyManager as a state machine (register,           *)
(*               is_registered, run);                                      *)
(*   SpecMatch   the pure functions of hotkey.rs (HotKey::matches,         *)
(*               From<RawMods> for ModifiersState);                        *)
(*   SpecDpi     the pure functions of dpi.rs (Pixel::cast, to_physical,   *)
(*               to_logical, the unified Size / Position / PixelUnit       *)
(*               conversions, Size::clamp);                                *)
(*   SpecMenu    a program built for one target_os that assembles menus,   *)
(*               materializes them, has its items activated and its        *)
(*               windows destroyed; the native objects are a heap;         *)
(*   SpecHandle  a program that builds menus of custom items and calls     *)
(*               set_enabled, set_title, set_selected on their handles     *)
(*               (linux, windows);                                         *)
(*   SpecIme     a window whose messages are posted to a queue and given   *)
(*               to MinimalIme::process_message.                           *)
(* In the two pure specifications Init draws the inputs of one call and    *)
(* the action of the called function computes its result.                  *)
(***************************************************************************)
EXTENDS Integers, Sequences, FiniteSets, TLC

VARIABLES
  registered_hotkeys,  \* HotKeyManager.registered_hotkeys: Vec<GlobalAccelerator>
  os_bound,            \* platform side: how often each accelerator was bound at the OS
  registered_ok,       \* history: the hotkeys for which register returned Ok
  last,                \* the last HotKeyManager call: op, argument, result, state before
  call,                \* one call of a pure function: fn, arg, ret
  target_os,           \* the target_os the menu code is compiled for
  builders,            \* the menus the application holds and is assembling
  handles,             \* the CustomMenuItem values the application was returned
  native,              \* the native objects: widgets, menus, handler boxes
  events,              \* the menu events sent on the outgoing channel, in order
  mlast,               \* the last menu operation: op, arguments, state before
  ime                  \* a MinimalIme, the message queue of its window, its last call

hkvars == <<registered_hotkeys, os_bound, registered_ok, last>>
menuvars == <<target_os, builders, handles, native, events, mlast>>
vars == <<registered_hotkeys, os_bound, registered_ok, last, call,
          target_os, builders, handles, native, events, mlast, ime>>

(***************************************************************************)
(* Bounds of the model.                                                    *)
(***************************************************************************)
MaxKey == 2          \* key codes 1..MaxKey stand for the variants of keyboard::Key
MaxRegistered == 3   \* cap on the length of registered_hotkeys
MaxRun == 2          \* cap on the number of run calls

None == "none"       \* no value (no call yet, unit result)

------------------------------------------------------------------------------
(***************************************************************************)
(* hotkey.rs: RawMods, ModifiersState, HotKey                              *)
(***************************************************************************)

\* enum RawMods, in declaration order. A variant is written as the list of
\* the modifier names its identifier is made of (AltCtrl = <<"Alt","Ctrl">>).
RawModsDecl ==
  << <<>>,
     <<"Alt">>,
     <<"Ctrl">>,
     <<"Meta">>,
     <<"Shift">>,
     <<"Alt", "Ctrl">>,
     <<"Alt", "Meta">>,
     <<"Alt", "Shift">>,
     <<"Ctrl", "Shift">>,
     <<"Ctrl", "Meta">>,
     <<"Meta", "Shift">>,
     <<"Alt", "Ctrl", "Meta">>,
     <<"Alt", "Ctrl", "Shift">>,
     <<"Alt", "Meta", "Shift">>,
     <<"Ctrl", "Meta", "Shift">>,
     <<"Alt", "Ctrl", "Meta", "Shift">> >>

RawMods == {RawModsDecl[i] : i \in 1..Len(RawModsDecl)}

\* keyboard::ModifiersState is a bit set. A value is the set of its bits;
\* the four named flags, and bits that are none of them.
SHIFT == "SHIFT"
CONTROL == "CONTROL"
ALT == "ALT"
SUPER == "SUPER"
ExtraBits == {"EXTRA1", "EXTRA2"}
ModifiersState == SUBSET ({SHIFT, CONTROL, ALT, SUPER} \cup ExtraBits)

\* ModifiersState::set(flag, value) on a value of the bit set.
ModifiersSet(mods, flag, value) ==
  IF value THEN mods \cup {flag} ELSE mods \ {flag}

\* A plausible slip in the table: the rows of CtrlMeta and CtrlShift exchanged.
FromRawModsTuple_swapped(src) ==
  CASE src = <<>> -> <<FALSE, FALSE, FALSE, FALSE>>
    [] src = <<"Alt">> -> <<TRUE, FALSE, FALSE, FALSE>>
    [] src = <<"Ctrl">> -> <<FALSE, TRUE, FALSE, FALSE>>
    [] src = <<"Meta">> -> <<FALSE, FALSE, TRUE, FALSE>>
    [] src = <<"Shift">> -> <<FALSE, FALSE, FALSE, TRUE>>
    [] src = <<"Alt", "Ctrl">> -> <<TRUE, TRUE, FALSE, FALSE>>
    [] src = <<"Alt", "Meta">> -> <<TRUE, FALSE, TRUE, FALSE>>
    [] src = <<"Alt", "Shift">> -> <<TRUE, FALSE, FALSE, TRUE>>
    [] src = <<"Ctrl", "Meta">> -> <<FALSE, TRUE, FALSE, TRUE>>
    [] src = <<"Ctrl", "Shift">> -> <<FALSE, TRUE, TRUE, FALSE>>
    [] src = <<"Meta", "Shift">> -> <<FALSE, FALSE, TRUE, TRUE>>
    [] src = <<"Alt", "Ctrl", "Meta">> -> <<TRUE, TRUE, TRUE, FALSE>>
    [] src = <<"Alt", "Meta", "Shift">> -> <<TRUE, FALSE, TRUE, TRUE>>
    [] src = <<"Alt", "Ctrl", "Shift">> -> <<TRUE, TRUE, FALSE, TRUE>>
    [] src = <<"Ctrl", "Meta", "Shift">> -> <<FALSE, TRUE, TRUE, TRUE>>
    [] src = <<"Alt", "Ctrl", "Meta", "Shift">> -> <<TRUE, TRUE, TRUE, TRUE>>

\* The match of From<RawMods> for ModifiersState: (alt, ctrl, meta, shift),
\* row by row as in the source.
FromRawModsTuple(src) ==
  CASE src = <<>> -> <<FALSE, FALSE, FALSE, FALSE>>
    [] src = <<"Alt">> -> <<TRUE, FALSE, FALSE, FALSE>>
    [] src = <<"Ctrl">> -> <<FALSE, TRUE, FALSE, FALSE>>
    [] src = <<"Meta">> -> <<FALSE, FALSE, TRUE, FALSE>>
    [] src = <<"Shift">> -> <<FALSE, FALSE, FALSE, TRUE>>
    [] src = <<"Alt", "Ctrl">> -> <<TRUE, TRUE, FALSE, FALSE>>
    [] src = <<"Alt", "Meta">> -> <<TRUE, FALSE, TRUE, FALSE>>
    [] src = <<"Alt", "Shift">> -> <<TRUE, FALSE, FALSE, TRUE>>
    [] src = <<"Ctrl", "Meta">> -> <<FALSE, TRUE, TRUE, FALSE>>
    [] src = <<"Ctrl", "Shift">> -> <<FALSE, TRUE, FALSE, TRUE>>
    [] src = <<"Meta", "Shift">> -> <<FALSE, FALSE, TRUE, TRUE>>
    [] src = <<"Alt", "Ctrl", "Meta">> -> <<TRUE, TRUE, TRUE, FALSE>>
    [] src = <<"Alt", "Meta", "Shift">> -> <<TRUE, FALSE, TRUE, TRUE>>
    [] src = <<"Alt", "Ctrl", "Shift">> -> <<TRUE, TRUE, FALSE, TRUE>>
    [] src = <<"Ctrl", "Meta", "Shift">> -> <<FALSE, TRUE, TRUE, TRUE>>
    [] src = <<"Alt", "Ctrl", "Meta", "Shift">> -> <<TRUE, TRUE, TRUE, TRUE>>

\* impl From<RawMods> for ModifiersState
FromRawMods(src) ==
  LET t == FromRawModsTuple(src)
      m0 == {}
      m1 == ModifiersSet(m0, ALT, t[1])
      m2 == ModifiersSet(m1, CONTROL, t[2])
      m3 == ModifiersSet(m2, SUPER, t[3])
      m4 == ModifiersSet(m3, SHIFT, t[4])
  IN m4

\* impl PartialEq<ModifiersState> for RawMods
RawModsEq(self, other) == FromRawMods(self) = other

\* keyboard::Key, by key code
Keys == 1..MaxKey

\* struct HotKey { mods, key }
HotKey == [mods : RawMods, key : Keys]

\* A plausible bug: the observed modifiers are compared unmasked.
matches_unmasked(self, modifiers, key) ==
  RawModsEq(self.mods, modifiers) /\ self.key = key

\* HotKey::matches
matches(self, modifiers, key) ==
  LET base_mods == {SHIFT} \cup {CONTROL} \cup {ALT} \cup {SUPER}
  IN RawModsEq(self.mods, modifiers \cap base_mods) /\ self.key = key

\* The discriminant of a RawMods variant, which #[derive(Hash)] feeds the hasher.
Discriminant(r) == (CHOOSE i \in 1..Len(RawModsDecl) : RawModsDecl[i] = r) - 1

\* std's DefaultHasher is outside the repository. Its 64-bit result is stood
\* for by a deterministic, injective mix of the hashed fields in which the
\* discriminant of mods lands above bit 16; the truncation below then
\* collides on hotkeys that differ in mods only, as the real truncation must
\* collide somewhere (Key carries strings: more than 2^16 hotkeys exist).
DefaultHasherFinish(hotkey) == Discriminant(hotkey.mods) * 65536 + hotkey.key

\* hash_hotkey_to_u16: s.finish() as u16
hash_hotkey_to_u16(hotkey) == DefaultHasherFinish(hotkey) % 65536

\* HotKey::id
id(self) == hash_hotkey_to_u16(self)

------------------------------------------------------------------------------
(***************************************************************************)
(* hotkey.rs: HotKeyManager                                                *)
(***************************************************************************)

\* platform_impl::GlobalAccelerator::new: the platform handle of a hotkey.
\* The platform layer is not part of the sources; the handle is the hotkey
\* it was made from, compared structurally (#[derive(PartialEq)] upstream).
GlobalAcceleratorPlatformNew(hotkey) == [hotkey |-> hotkey]

\* struct GlobalAccelerator(pub(crate) GlobalAcceleratorPlatform)
GlobalAccelerator(platform) == [inner |-> platform]

\* The hotkeys the manager is driven with: two modifier sets, every key.
ManagerMods == {<<"Ctrl">>, <<"Alt", "Ctrl">>}
ManagerHotKeys == [mods : ManagerMods, key : Keys]
Accelerators == {GlobalAccelerator(GlobalAcceleratorPlatformNew(h)) : h \in ManagerHotKeys}

\* Vec::contains
Contains(v, x) == \E i \in 1..Len(v) : v[i] = x

\* Result and HotKeyManagerError values
Ok(v) == [kind |-> "Ok", value |-> v]
Err(e) == [kind |-> "Err", error |-> e]
HotKeyAlreadyRegistered(hotkey) == [variant |-> "HotKeyAlreadyRegistered", hotkey |-> hotkey]
HotKeyNotRegistered(hotkey) == [variant |-> "HotKeyNotRegistered", hotkey |-> hotkey]

\* A plausible bug: membership decided by the derived 16-bit identifier.
is_registered_by_id(regs, hotkey) ==
  \E i \in 1..Len(regs) : id(regs[i].inner.hotkey) = id(hotkey)

\* A plausible bug: only the most recent registration is looked at.
is_registered_last_only(regs, hotkey) ==
  LET hk == GlobalAccelerator(GlobalAcceleratorPlatformNew(hotkey))
  IN regs # <<>> /\ regs[Len(regs)] = hk

\* HotKeyManager::is_registered
is_registered(regs, hotkey) ==
  LET hk == GlobalAccelerator(GlobalAcceleratorPlatformNew(hotkey))
  IN Contains(regs, hk)

\* A plausible bug: the duplicate is reported but was appended all the same.
register_appends_always(regs, hotkey) ==
  LET hk == GlobalAccelerator(GlobalAcceleratorPlatformNew(hotkey))
  IN IF is_registered(regs, hotkey)
     THEN [regs |-> regs \o <<hk>>, ret |-> Err(HotKeyAlreadyRegistered(hotkey))]
     ELSE [regs |-> regs \o <<hk>>, ret |-> Ok(hk)]

\* A plausible bug: the handle is returned but never stored.
register_not_stored(regs, hotkey) ==
  LET hk == GlobalAccelerator(GlobalAcceleratorPlatformNew(hotkey))
  IN IF is_registered(regs, hotkey)
     THEN [regs |-> regs, ret |-> Err(HotKeyAlreadyRegistered(hotkey))]
     ELSE [regs |-> regs, ret |-> Ok(hk)]

\* A plausible bug: the new registration is put in front of the others.
register_prepends(regs, hotkey) ==
  IF is_registered(regs, hotkey)
  THEN [regs |-> regs, ret |-> Err(HotKeyAlreadyRegistered(hotkey))]
  ELSE LET hk == GlobalAccelerator(GlobalAcceleratorPlatformNew(hotkey))
       IN [regs |-> <<hk>> \o regs, ret |-> Ok(hk)]

\* HotKeyManager::register: the vector afterwards and the value returned
register(regs, hotkey) ==
  IF is_registered(regs, hotkey)
  THEN [regs |-> regs, ret |-> Err(HotKeyAlreadyRegistered(hotkey))]
  ELSE LET hk == GlobalAccelerator(GlobalAcceleratorPlatformNew(hotkey))
       IN [regs |-> regs \o <<hk>>, ret |-> Ok(hk)]

\* platform_impl::register_global_accelerators(target, &mut Vec): the bulk
\* flush. Not part of the sources; after the specification it binds at the OS
\* the registrations that are pending (in the vector, not yet bound) and
\* leaves the vector as it is. os maps an accelerator to its number of binds.
register_global_accelerators(os, regs) ==
  [a \in DOMAIN os |-> IF Contains(regs, a) /\ os[a] = 0 THEN os[a] + 1 ELSE os[a]]

\* A plausible bug: only the most recent registration is handed over.
run_last_only(regs, os) ==
  [regs |-> regs,
   os |-> register_global_accelerators(os, IF regs = <<>> THEN regs ELSE <<regs[Len(regs)]>>),
   ret |-> Ok(None)]

\* HotKeyManager::run: the whole vector is handed to the platform layer
run(regs, os) ==
  [regs |-> regs, os |-> register_global_accelerators(os, regs), ret |-> Ok(None)]

\* No window with a MinimalIme exists.
NoIme == ime = [op |-> None]

\* No menu code runs: the menu variables rest.
NoMenu ==
  /\ target_os = None
  /\ builders = <<>>
  /\ handles = <<>>
  /\ native = <<>>
  /\ events = <<>>
  /\ mlast = [op |-> None]

\* Default for HotKeyManager / HotKeyManager::new: nothing registered,
\* nothing bound, no call made.
NewManager ==
  /\ registered_hotkeys = <<>>
  /\ os_bound = [a \in Accelerators |-> 0]
  /\ registered_ok = {}
  /\ last = [op |-> None, hotkey |-> None, ret |-> None, before |-> <<>>, runs |-> 0]

InitHotKey ==
  /\ NewManager
  /\ NoMenu
  /\ NoIme
  /\ call = [fn |-> None, arg |-> None, ret |-> None, done |-> FALSE]

Register(hotkey) ==
  /\ Len(registered_hotkeys) < MaxRegistered \/ is_registered(registered_hotkeys, hotkey)
  /\ LET r == register(registered_hotkeys, hotkey)
     IN /\ registered_hotkeys' = r.regs
        /\ registered_ok' = IF r.ret.kind = "Ok" THEN registered_ok \cup {hotkey}
                            ELSE registered_ok
        /\ last' = [op |-> "register", hotkey |-> hotkey, ret |-> r.ret,
                    before |-> registered_hotkeys, runs |-> last.runs]
  /\ UNCHANGED <<ime, os_bound, call, menuvars>>

IsRegistered(hotkey) ==
  /\ last' = [op |-> "is_registered", hotkey |-> hotkey,
              ret |-> is_registered(registered_hotkeys, hotkey),
              before |-> registered_hotkeys, runs |-> last.runs]
  /\ UNCHANGED <<ime, registered_hotkeys, os_bound, registered_ok, call, menuvars>>

Run ==
  /\ last.runs < MaxRun
  /\ LET r == run(registered_hotkeys, os_bound)
     IN /\ registered_hotkeys' = r.regs
        /\ os_bound' = r.os
        /\ last' = [op |-> "run", hotkey |-> None, ret |-> r.ret,
                    before |-> registered_hotkeys, runs |-> last.runs + 1]
  /\ UNCHANGED <<ime, registered_ok, call, menuvars>>

NextHotKey ==
  \/ \E h \in ManagerHotKeys : Register(h)
  \/ \E h \in ManagerHotKeys : IsRegistered(h)
  \/ Run

SpecHotKey == InitHotKey /\ [][NextHotKey]_vars

------------------------------------------------------------------------------
(***************************************************************************)
(* SpecMatch: one call of a pure function of hotkey.rs                     *)
(***************************************************************************)

\* A call drawn by Init, and the call once its function has returned.
NewCall(fn, arg) == [fn |-> fn, arg |-> arg, ret |-> None, done |-> FALSE]
Return(c, ret) == [c EXCEPT !.ret = ret, !.done = TRUE]

MatchInputs ==
  {NewCall("matches", a) : a \in [hotkey : HotKey, modifiers : ModifiersState, key : Keys]}
     \cup {NewCall("from_raw_mods", r) : r \in RawMods}

InitMatch ==
  /\ NewManager
  /\ NoMenu
  /\ NoIme
  /\ call \in MatchInputs

CallMatches ==
  /\ call.fn = "matches" /\ ~call.done
  /\ call' = Return(call, matches(call.arg.hotkey, call.arg.modifiers, call.arg.key))
  /\ UNCHANGED <<ime, hkvars, menuvars>>

CallFromRawMods ==
  /\ call.fn = "from_raw_mods" /\ ~call.done
  /\ call' = Return(call, FromRawMods(call.arg))
  /\ UNCHANGED <<ime, hkvars, menuvars>>

NextMatch == CallMatches \/ CallFromRawMods

SpecMatch == InitMatch /\ [][NextMatch]_vars

------------------------------------------------------------------------------
(***************************************************************************)
(* dpi.rs: pixel values, Pixel::cast, scale-factor conversions             *)
(*                                                                         *)
(* A finite f64 is the rational it denotes, [n, d] in lowest terms with    *)
(* d > 0; an integer pixel value is the rational k/1. The inputs are small *)
(* dyadic numbers and small scale factors, for which f64 products are      *)
(* exact and the rounding of an f64 quotient cannot cross a half-integer,  *)
(* so that rounding the rational and rounding the f64 agree. f32 is not    *)
(* modelled (its from_f64 narrows the mantissa, which a rational does not  *)
(* show). A scale factor also carries the f64 class and sign that          *)
(* validate_scale_factor looks at.                                         *)
(***************************************************************************)

Abs(k) == IF k < 0 THEN -k ELSE k
Sign(k) == IF k < 0 THEN -1 ELSE IF k > 0 THEN 1 ELSE 0

RECURSIVE GCD(_, _)
GCD(a, b) == IF b = 0 THEN a ELSE GCD(b, a % b)

\* The rational n/d (d # 0) in lowest terms, and f64 arithmetic on rationals
Rat(n, d) ==
  LET g == GCD(Abs(n), Abs(d))
      s == IF d < 0 THEN -1 ELSE 1
  IN [n |-> (s * n) \div g, d |-> (s * d) \div g]
F64Mul(a, b) == Rat(a.n * b.n, a.d * b.d)
F64Div(a, b) == Rat(a.n * b.d, a.d * b.n)

\* The pixel types of pixel_int_impl!, and f64
PixelInts == {"u8", "u16", "u32", "i8", "i16", "i32"}
PixelTypes == PixelInts \cup {"f64"}

\* $t::MIN and $t::MAX. u32::MAX = 4294967295 is beyond the integers of TLC;
\* no value of the model exceeds it (AboveMax).
IntMin(t) ==
  CASE t = "u8" -> 0
    [] t = "u16" -> 0
    [] t = "u32" -> 0
    [] t = "i8" -> -128
    [] t = "i16" -> -32768
    [] t = "i32" -> -2147483647 - 1
IntMax(t) ==
  CASE t = "u8" -> 255
    [] t = "u16" -> 65535
    [] t = "i8" -> 127
    [] t = "i16" -> 32767
    [] t = "i32" -> 2147483647
AboveMax(t, k) == t # "u32" /\ k > IntMax(t)

\* impl Into<f64> for an integer pixel type or f64: exact
into_f64(t, v) == v

\* f64::round: to the nearest integer, halves away from zero
F64Round(f) ==
  LET a == Abs(f.n)
      k == (2 * a + f.d) \div (2 * f.d)
  IN IF f.n < 0 THEN -k ELSE k

\* `as $t` on an integral f64: saturates at the bounds of $t
AsInt(t, k) ==
  IF k < IntMin(t) THEN IntMin(t)
  ELSE IF AboveMax(t, k) THEN IntMax(t)
  ELSE k

\* `as $t` on any finite f64: the fraction is dropped, then as above
AsIntTruncating(t, f) ==
  AsInt(t, IF f.n < 0 THEN -(Abs(f.n) \div f.d) ELSE f.n \div f.d)

\* A plausible bug (the one the module documentation warns of): `f as $t`
\* without round().
from_f64_truncating(t, f) ==
  IF t = "f64" THEN f ELSE Rat(AsIntTruncating(t, f), 1)

\* Pixel::from_f64: pixel_int_impl! (f.round() as $t), and f64 (f)
from_f64(t, f) ==
  IF t = "f64" THEN f ELSE Rat(AsInt(t, F64Round(f)), 1)

\* Pixel::cast: P::from_f64(self.into())
cast(from, to, v) == from_f64(to, into_f64(from, v))

\* validate_scale_factor: is_sign_positive() && is_normal()
validate_scale_factor(scale_factor) ==
  ~scale_factor.neg /\ scale_factor.cls = "normal"

\* $LogicalType::cast / $PhysicalType::cast: every field cast
StructCast(from, to, self) == [a \in DOMAIN self |-> cast(from, to, self[a])]

Panic == [panic |-> TRUE]
Value(v) == [panic |-> FALSE, value |-> v]

\* A plausible bug: every field computed from the first one.
to_physical_first_field(P, X, self, scale_factor) ==
  IF ~validate_scale_factor(scale_factor) THEN Panic
  ELSE LET first == CHOOSE a \in DOMAIN self : TRUE
           physical == [a \in DOMAIN self |->
                          F64Mul(into_f64(P, self[first]), scale_factor.q)]
       IN Value(StructCast("f64", X, physical))

\* $LogicalType<P>::to_physical::<X>
to_physical(P, X, self, scale_factor) ==
  IF ~validate_scale_factor(scale_factor) THEN Panic
  ELSE LET physical == [a \in DOMAIN self |->
                          F64Mul(into_f64(P, self[a]), scale_factor.q)]
       IN Value(StructCast("f64", X, physical))

\* A plausible bug: the scale factor applied the wrong way round.
to_logical_multiplies(P, X, self, scale_factor) ==
  IF ~validate_scale_factor(scale_factor) THEN Panic
  ELSE LET logical == [a \in DOMAIN self |->
                         F64Mul(into_f64(P, self[a]), scale_factor.q)]
       IN Value(StructCast("f64", X, logical))

\* $PhysicalType<P>::to_logical::<X>
to_logical(P, X, self, scale_factor) ==
  IF ~validate_scale_factor(scale_factor) THEN Panic
  ELSE LET logical == [a \in DOMAIN self |->
                         F64Div(into_f64(P, self[a]), scale_factor.q)]
       IN Value(StructCast("f64", X, logical))

\* The instances of dpi_type!: $UnifiedType, its fields, and the pixel types
\* of its Physical and Logical variants
UnifiedTypes == {"PixelUnit", "Position", "Size"}
UnifiedFields(U) ==
  CASE U = "PixelUnit" -> {"value"}
    [] U = "Position" -> {"x", "y"}
    [] U = "Size" -> {"width", "height"}
unified_physical(U) == IF U = "Size" THEN "u32" ELSE "i32"
unified_logical(U) == "f64"

\* $UnifiedType::Physical(val) and $UnifiedType::Logical(val)
Physical(val) == [variant |-> "Physical", val |-> val]
Logical(val) == [variant |-> "Logical", val |-> val]

\* $UnifiedType::to_logical::<P>
Unified_to_logical(U, P, self, scale_factor) ==
  IF self.variant = "Physical"
  THEN to_logical(unified_physical(U), P, self.val, scale_factor)
  ELSE Value(StructCast(unified_logical(U), P, self.val))

\* $UnifiedType::to_physical::<P>
Unified_to_physical(U, P, self, scale_factor) ==
  IF self.variant = "Physical"
  THEN Value(StructCast(unified_physical(U), P, self.val))
  ELSE to_physical(unified_logical(U), P, self.val, scale_factor)

\* impl From<$PhysicalType<P>> for $UnifiedType, and From<$LogicalType<P>>
FromPhysicalType(U, P, val) == Physical(StructCast(P, unified_physical(U), val))
FromLogicalType(U, P, val) == Logical(StructCast(P, unified_logical(U), val))

\* `<` on finite f64 values
F64Less(a, b) == a.n * b.d < b.n * a.d

\* A clamp that confuses its bounds: below min it answers max
clamp_to_max(desired_size, min, max) ==
  IF F64Less(desired_size, min) THEN max
  ELSE IF F64Less(max, desired_size) THEN max
  ELSE desired_size

\* The closure `clamp` of Size::clamp
clamp(desired_size, min, max) ==
  IF F64Less(desired_size, min) THEN min
  ELSE IF F64Less(max, desired_size) THEN max
  ELSE desired_size

\* S: Into<Size> for S = PhysicalSize<u32> and S = LogicalSize<f64>
ClampArgTypes == {"PhysicalSize<u32>", "LogicalSize<f64>"}
into_Size(S, val) ==
  IF S = "PhysicalSize<u32>" THEN FromPhysicalType("Size", "u32", val)
  ELSE FromLogicalType("Size", "f64", val)

\* Size::clamp::<S>: the three arguments are resolved in order, and a failed
\* assertion in any of them ends the call.
Size_clamp(S, desired_size, min, max, scale_factor) ==
  LET d == Unified_to_physical("Size", "f64", into_Size(S, desired_size),
                               scale_factor)
      lo == Unified_to_physical("Size", "f64", into_Size(S, min), scale_factor)
      hi == Unified_to_physical("Size", "f64", into_Size(S, max), scale_factor)
  IN IF d.panic \/ lo.panic \/ hi.panic THEN Panic
     ELSE LET width == clamp(d.value.width, lo.value.width, hi.value.width)
              height == clamp(d.value.height, lo.value.height, hi.value.height)
          IN Value(FromPhysicalType("Size", "f64",
                                    [width |-> width, height |-> height]))

(***************************************************************************)
(* SpecDpi: one call of a pure function of dpi.rs                          *)
(***************************************************************************)
Den == 4         \* fractional inputs are multiples of 1/Den
CastWindow == 6  \* cast inputs lie within CastWindow/Den of an anchor
MaxCoord == 3    \* coordinates are k/2 for k in -MaxCoord..MaxCoord

\* Values around zero and around the bounds of the 8- and 16-bit types
CastAnchors == {0, 127, -128, 255, 32767, -32768, 65535}
CastValues ==
  {Rat(a * Den + k, Den) : a \in CastAnchors, k \in -CastWindow..CastWindow}

\* The values a pixel type can hold, among a set of rationals
IsValueOf(t, v) ==
  \/ t = "f64"
  \/ v.d = 1 /\ v.n >= IntMin(t) /\ ~AboveMax(t, v.n)

Coords == {Rat(k, 2) : k \in -MaxCoord..MaxCoord}

\* Scale factors: valid ones, and one of each kind that is not valid
F64Normal(q) == [cls |-> "normal", neg |-> FALSE, q |-> q]
ValidScales == {F64Normal(Rat(1, 4)), F64Normal(Rat(1, 2)), F64Normal(Rat(1, 1)),
                F64Normal(Rat(5, 4)), F64Normal(Rat(3, 2)), F64Normal(Rat(2, 1))}
InvalidScales ==
  {[cls |-> "zero", neg |-> FALSE, q |-> Rat(0, 1)],
   [cls |-> "zero", neg |-> TRUE, q |-> Rat(0, 1)],
   [cls |-> "normal", neg |-> TRUE, q |-> Rat(1, 1)],
   [cls |-> "subnormal", neg |-> FALSE, q |-> Rat(0, 1)],
   [cls |-> "infinite", neg |-> FALSE, q |-> Rat(0, 1)],
   [cls |-> "nan", neg |-> FALSE, q |-> Rat(0, 1)]}
Scales == ValidScales \cup InvalidScales

ConvFrom == {"f64", "i32"}
ConvTo == {"f64", "i32", "u32"}
ConvArgs ==
  {a \in [from : ConvFrom, to : ConvTo, value : [x : Coords, y : Coords],
          scale_factor : Scales] :
     IsValueOf(a.from, a.value.x) /\ IsValueOf(a.from, a.value.y)}

\* Values of a unified type: either variant, fields among Coords
UnifiedValues(U) ==
  {Physical(val) :
     val \in [UnifiedFields(U) -> {c \in Coords : IsValueOf(unified_physical(U), c)}]}
    \cup {Logical(val) : val \in [UnifiedFields(U) -> Coords]}
UnifiedArgs ==
  UNION {[U : {U}, to : ConvTo, self : UnifiedValues(U), scale_factor : Scales] :
           U \in UnifiedTypes}

\* Arguments of Size::clamp: three sizes of the same type S
MaxClamp == 2    \* clamp coordinates are k/2 for k in 0..MaxClamp
ClampCoords == {Rat(k, 2) : k \in 0..MaxClamp}
ClampSizes(S) ==
  [width : {c \in ClampCoords : S = "LogicalSize<f64>" \/ IsValueOf("u32", c)},
   height : {c \in ClampCoords : S = "LogicalSize<f64>" \/ IsValueOf("u32", c)}]
ClampArgs ==
  UNION {[S : {S}, desired_size : ClampSizes(S), min : ClampSizes(S),
          max : ClampSizes(S), scale_factor : Scales] : S \in ClampArgTypes}

DpiInputs ==
  {NewCall("cast", a) :
     a \in {b \in [from : PixelTypes, to : PixelTypes, v : CastValues] :
              IsValueOf(b.from, b.v)}}
    \cup {NewCall("to_physical", a) : a \in ConvArgs}
    \cup {NewCall("to_logical", a) : a \in ConvArgs}
    \cup {NewCall("Unified::to_physical", a) : a \in UnifiedArgs}
    \cup {NewCall("Unified::to_logical", a) : a \in UnifiedArgs}
    \cup {NewCall("Size::clamp", a) : a \in ClampArgs}

InitDpi ==
  /\ NewManager
  /\ NoMenu
  /\ NoIme
  /\ call \in DpiInputs

CallCast ==
  /\ call.fn = "cast" /\ ~call.done
  /\ call' = Return(call, cast(call.arg.from, call.arg.to, call.arg.v))
  /\ UNCHANGED <<ime, hkvars, menuvars>>

CallToPhysical ==
  /\ call.fn = "to_physical" /\ ~call.done
  /\ call' = Return(call, to_physical(call.arg.from, call.arg.to, call.arg.value,
                                      call.arg.scale_factor))
  /\ UNCHANGED <<ime, hkvars, menuvars>>

CallToLogical ==
  /\ call.fn = "to_logical" /\ ~call.done
  /\ call' = Return(call, to_logical(call.arg.from, call.arg.to, call.arg.value,
                                     call.arg.scale_factor))
  /\ UNCHANGED <<ime, hkvars, menuvars>>

\* The second leg of a round trip: the physical value a to_physical call
\* returned is converted back to the pixel type it came from.
CallToLogicalOfResult ==
  /\ call.fn = "to_physical" /\ call.done /\ ~call.ret.panic
  /\ call' = [call EXCEPT
                !.fn = "round_trip",
                !.ret = to_logical(call.arg.to, call.arg.from, call.ret.value,
                                   call.arg.scale_factor)]
  /\ UNCHANGED <<ime, hkvars, menuvars>>

CallUnifiedToPhysical ==
  /\ call.fn = "Unified::to_physical" /\ ~call.done
  /\ call' = Return(call, Unified_to_physical(call.arg.U, call.arg.to,
                                              call.arg.self,
                                              call.arg.scale_factor))
  /\ UNCHANGED <<ime, hkvars, menuvars>>

CallUnifiedToLogical ==
  /\ call.fn = "Unified::to_logical" /\ ~call.done
  /\ call' = Return(call, Unified_to_logical(call.arg.U, call.arg.to,
                                             call.arg.self,
                                             call.arg.scale_factor))
  /\ UNCHANGED <<ime, hkvars, menuvars>>

CallClamp ==
  /\ call.fn = "Size::clamp" /\ ~call.done
  /\ call' = Return(call, Size_clamp(call.arg.S, call.arg.desired_size,
                                     call.arg.min, call.arg.max,
                                     call.arg.scale_factor))
  /\ UNCHANGED <<ime, hkvars, menuvars>>

NextDpi ==
  \/ CallCast \/ CallToPhysical \/ CallToLogical \/ CallToLogicalOfResult
  \/ CallUnifiedToPhysical \/ CallUnifiedToLogical \/ CallClamp

SpecDpi == InitDpi /\ [][NextDpi]_vars

------------------------------------------------------------------------------
(***************************************************************************)
(* Menus: values shared by the three platform bridges                      *)
(***************************************************************************)
MaxAdds == 3     \* cap on the number of add_* calls of a run
MaxActivations == 2   \* cap on the number of activations of a run
MaxMutations == 1     \* cap on the number of set_* calls of a run

\* The ids the Windows bridge reserves for its own edit commands
CUT_ID == 544654
COPY_ID == 5465454
PASTE_ID == 5479854

\* MenuId values of custom items: ordinary ones, and one that equals CUT_ID
MenuIds == {1, 2, CUT_ID}
Title(menu_id) == <<"item", menu_id>>

\* MenuType
MenuTypes == {"Menubar", "SystemTray"}

\* The arguments of add_item the model draws from: (id, enabled, selected),
\* for the menu and for the submenu
CustomArgs ==
  {[menu_id |-> 1, enabled |-> TRUE, selected |-> FALSE],
   [menu_id |-> CUT_ID, enabled |-> TRUE, selected |-> TRUE]}
SubmenuArgs ==
  {[menu_id |-> 2, enabled |-> TRUE, selected |-> FALSE]}

\* The builder operations
AddOps == {"add_item", "add_native_item", "add_submenu", "add_custom_item"}

\* The calls on the handle of a custom item
SetOps == {"set_enabled", "set_title", "set_selected"}

\* The variants of MenuItem the model draws from: a separator, a native
\* action every bridge knows, and one that only macOS knows
NativeItems == {"Separator", "Copy", "Services"}

\* The names of the application's Menu variables
MenuNames == {"menu", "submenu"}

\* The windows a menu bar is built for
WindowIds == {1, 2}

\* A Menu variable of the application: live, or moved out of
Live(menu) == [live |-> TRUE, menu |-> menu]
Moved == [live |-> FALSE, menu |-> <<>>]

\* The sequences of at most n elements of S
SeqsUpTo(S, n) == UNION {[1..k -> S] : k \in 0..n}

\* native is a heap: a sequence of objects, referred to by their index
Alloc(heap, object) == [heap |-> Append(heap, object), ref |-> Len(heap) + 1]

------------------------------------------------------------------------------
(***************************************************************************)
(* platform_impl/linux/menu.rs: the builder Menu and its GTK widgets       *)
(***************************************************************************)
\* A GTK widget: GtkMenuItem, CheckMenuItem, SeparatorMenuItem, GtkMenu, MenuBar
Widget(type, label) ==
  [type |-> type, label |-> label, sensitive |-> TRUE, active |-> FALSE,
   handlers |-> <<>>, children |-> <<>>, submenu |-> 0]

\* A MenuShell that adds the child before the children it has
gtk_prepend(heap, menu, child) ==
  [heap EXCEPT ![menu].children = <<child>> \o @]

\* MenuShell::append: the child is added after the children the shell has
gtk_append(heap, menu, child) ==
  [heap EXCEPT ![menu].children = Append(@, child)]

\* connect_activate: one more handler on the widget's activate signal
connect_activate(heap, item, closure) ==
  [heap EXCEPT ![item].handlers = Append(@, closure)]

\* The closure of generate_menu:
\* tx_.send((window_id, WindowRequest::Menu((None, Some(id)))))
linux_MenuRequest(window_id, menu_id) ==
  [window_id |-> window_id, menu_id |-> menu_id, origin |-> None]

\* Menu::new
linux_Menu_new == <<>>

\* Menu::add_item: the widget is created here, and the builder keeps a
\* clone of the attributes, which refers to the same widget
linux_add_item(self, heap, menu_id, title, accelerators, enabled, selected, menu_type) ==
  LET gtk_item == Alloc(heap, Widget(IF selected THEN "CheckMenuItem"
                                     ELSE "GtkMenuItem", title))
      custom_menu == [id |-> menu_id, key |-> accelerators, enabled |-> enabled,
                      selected |-> selected, menu_type |-> menu_type,
                      gtk_item |-> gtk_item.ref]
  IN [self |-> Append(self, [menu_type |-> "Custom", menu_item |-> None,
                             sub_menu |-> None,
                             custom_menu_item |-> custom_menu]),
      heap |-> gtk_item.heap,
      ret |-> custom_menu]

\* Menu::add_native_item
linux_add_native_item(self, heap, item, menu_type) ==
  [self |-> Append(self, [menu_type |-> "Native", menu_item |-> item,
                          sub_menu |-> None, custom_menu_item |-> None]),
   heap |-> heap,
   ret |-> None]

\* Menu::add_submenu
linux_add_submenu(self, heap, title, enabled, submenu) ==
  [self |-> Append(self, [menu_type |-> "Submenu", menu_item |-> None,
                          sub_menu |-> [menu |-> submenu, title |-> title,
                                        enabled |-> enabled],
                          custom_menu_item |-> None]),
   heap |-> heap,
   ret |-> None]

\* Labels that leave no native action out
linux_NativeLabel_any(item) ==
  CASE item = "Hide" -> "Hide"
    [] item = "CloseWindow" -> "Close Window"
    [] OTHER -> item

\* The native actions generate_menu has an arm for, and their labels
linux_NativeLabel(item) ==
  CASE item = "About" -> "About"
    [] item = "Hide" -> "Hide"
    [] item = "CloseWindow" -> "Close Window"
    [] item = "Quit" -> "Quit"
    [] item = "Copy" -> "Copy"
    [] item = "Cut" -> "Cut"
    [] item = "SelectAll" -> "Select All"
    [] item = "Paste" -> "Paste"
    [] OTHER -> None

\* Menu::generate_menu and Menu::into_gtkmenu. The items are visited in
\* order; every arm but Separator hands its widget to the append after the
\* match, the Separator arm appends by itself.
RECURSIVE generate_menu(_, _, _, _)
generate_menu(self, menu, heap, window_id) ==
  IF self = <<>> THEN heap
  ELSE
    LET menu_item == Head(self)
        done ==
          CASE menu_item.menu_type = "Submenu" ->
                 LET item == Alloc(heap, Widget("GtkMenuItem",
                                                menu_item.sub_menu.title))
                     gtkmenu == Alloc(item.heap, Widget("GtkMenu", None))
                     filled == generate_menu(menu_item.sub_menu.menu, gtkmenu.ref,
                                             gtkmenu.heap, window_id)
                     set == [filled EXCEPT ![item.ref].submenu = gtkmenu.ref]
                 IN gtk_append(set, menu, item.ref)
            [] menu_item.menu_type = "Custom" ->
                 LET c == menu_item.custom_menu_item
                     sensitive == [heap EXCEPT ![c.gtk_item].sensitive = c.enabled]
                     connected == connect_activate(sensitive, c.gtk_item,
                                                   linux_MenuRequest(window_id, c.id))
                 IN gtk_append(connected, menu, c.gtk_item)
            [] menu_item.menu_type = "Native" /\ menu_item.menu_item = "Separator" ->
                 LET item == Alloc(heap, Widget("SeparatorMenuItem", None))
                 IN gtk_append(item.heap, menu, item.ref)
            [] menu_item.menu_type = "Native"
                 /\ menu_item.menu_item # "Separator"
                 /\ linux_NativeLabel(menu_item.menu_item) # None ->
                 LET item == Alloc(heap, Widget("GtkMenuItem",
                                                linux_NativeLabel(menu_item.menu_item)))
                 IN gtk_append(item.heap, menu, item.ref)
            [] OTHER -> heap
    IN generate_menu(Tail(self), menu, done, window_id)

into_gtkmenu(self, heap, window_id) ==
  LET menu == Alloc(heap, Widget("GtkMenu", None))
  IN [heap |-> generate_menu(self, menu.ref, menu.heap, window_id),
      ret |-> menu.ref]

\* linux::menu::initialize: the menu bar of a window
linux_initialize(window_id, menu, heap) ==
  LET menubar == Alloc(heap, Widget("MenuBar", None))
  IN [heap |-> generate_menu(menu, menubar.ref, menubar.heap, window_id),
      ret |-> menubar.ref]

------------------------------------------------------------------------------
(***************************************************************************)
(* platform_impl/linux/status_bar.rs: Statusbar::initialize                *)
(***************************************************************************)
\* PathBuf::file_stem and PathBuf::parent of the icon: a path to a file;
\* "..", which has no file stem; and "/", which has neither
Icons == {[file_stem |-> "tray", parent |-> "icons"],
          [file_stem |-> None, parent |-> ""],
          [file_stem |-> None, parent |-> None]}

\* The MenuItem values of a status bar
StatusCustom(menu_id) ==
  [variant |-> "Custom", name |-> Title(menu_id), id |-> menu_id]
StatusItems ==
  {StatusCustom(1), [variant |-> "Separator"], [variant |-> "Copy"]}

\* OsError::new(line, file, super::OsError)
OsError(line) == [line |-> line, file |-> "status bar icon"]

\* The closure of Statusbar::initialize:
\* tx_.send((WindowId::dummy(), WindowRequest::Menu(request)))
status_bar_MenuRequest(request) ==
  [window_id |-> "dummy", menu_id |-> request.id, origin |-> None]

\* Statusbar::initialize, the loop over the items
RECURSIVE status_bar_items(_, _, _)
status_bar_items(heap, menu, items) ==
  IF items = <<>> THEN heap
  ELSE LET i == Head(items)
           done ==
             CASE i.variant = "Custom" ->
                    LET item == Alloc(heap, Widget("GtkMenuItem", i.name))
                        connected ==
                          connect_activate(item.heap, item.ref,
                                           status_bar_MenuRequest(i))
                    IN gtk_append(connected, menu, item.ref)
               [] i.variant = "Separator" ->
                    LET item == Alloc(heap, Widget("SeparatorMenuItem", None))
                    IN gtk_append(item.heap, menu, item.ref)
               [] OTHER -> heap
       IN status_bar_items(done, menu, Tail(items))

\* AppIndicator::with_path(.., &icon, &path) and set_status(Active)
AppIndicator(icon, path) ==
  [Widget("AppIndicator", <<path, icon>>) EXCEPT !.active = TRUE]

\* A Statusbar::initialize that creates the indicator and the menu before
\* it looks at the icon
Statusbar_initialize_eager(heap, status_bar) ==
  LET indicator == Alloc(heap, AppIndicator(status_bar.icon.file_stem,
                                            status_bar.icon.parent))
      m == Alloc(indicator.heap, Widget("GtkMenu", None))
      filled == status_bar_items(m.heap, m.ref, status_bar.items)
      set == [filled EXCEPT ![indicator.ref].submenu = m.ref]
  IN IF status_bar.icon.file_stem = None
     THEN [heap |-> set, ret |-> Err(OsError(16)), menu |-> 0]
     ELSE IF status_bar.icon.parent = None
     THEN [heap |-> set, ret |-> Err(OsError(20)), menu |-> 0]
     ELSE [heap |-> set, ret |-> Ok(<<>>), menu |-> m.ref]

\* Statusbar::initialize
Statusbar_initialize(heap, status_bar) ==
  IF status_bar.icon.file_stem = None
  THEN [heap |-> heap, ret |-> Err(OsError(16)), menu |-> 0]
  ELSE IF status_bar.icon.parent = None
  THEN [heap |-> heap, ret |-> Err(OsError(20)), menu |-> 0]
  ELSE LET indicator == Alloc(heap, AppIndicator(status_bar.icon.file_stem,
                                                 status_bar.icon.parent))
           m == Alloc(indicator.heap, Widget("GtkMenu", None))
           filled == status_bar_items(m.heap, m.ref, status_bar.items)
       IN [heap |-> [filled EXCEPT ![indicator.ref].submenu = m.ref],
           ret |-> Ok(<<>>), menu |-> m.ref]

\* StatusbarBuilder::build (status_bar.rs): the error of initialize is
\* returned by `?`, otherwise the Statusbar is
StatusbarBuilder_build(heap, status_bar) ==
  LET r == Statusbar_initialize(heap, status_bar)
  IN IF r.ret.kind = "Err"
     THEN [heap |-> r.heap, ret |-> r.ret, menu |-> r.menu, initialize |-> r.ret]
     ELSE [heap |-> r.heap, ret |-> Ok(status_bar), menu |-> r.menu,
           initialize |-> r.ret]

\* The record of a menu operation: what was called, with what, what it
\* returned, and the native objects and events as they were before
MenuOp(op, arg, ret) ==
  [op |-> op, arg |-> arg, ret |-> ret, native |-> native, events |-> events,
   adds |-> mlast.adds + (IF op \in AddOps THEN 1 ELSE 0),
   inits |-> mlast.inits
               + (IF op \in {"initialize", "Statusbar::initialize"} THEN 1 ELSE 0),
   activations |-> mlast.activations
                     + (IF op \in {"activate", "late_command", "command"}
                        THEN 1 ELSE 0),
   mutations |-> mlast.mutations + (IF op \in SetOps THEN 1 ELSE 0)]

\* A run has three phases: the application assembles its menus (the
\* submenu before the menu it goes into), then it materializes them, then
\* the user reaches them
Assembling ==
  /\ mlast.adds < MaxAdds
  /\ mlast.inits = 0
Materializing ==
  /\ mlast.inits < Cardinality(WindowIds)
  /\ mlast.activations = 0

\* A program for target_os = os has no item handle and has sent no event
InitMenuOn(os) ==
  /\ target_os = os
  /\ handles = <<>>
  /\ events = <<>>
  /\ mlast = [op |-> None, arg |-> None, ret |-> None, native |-> <<>>,
              events |-> <<>>, adds |-> 0, inits |-> 0, activations |-> 0,
              mutations |-> 0]

\* <name>.add_item(id, title, None, enabled, selected, menu_type)
LinuxAddItem(name, a, menu_type) ==
  /\ target_os = "linux"
  /\ builders[name].live
  /\ Assembling
  /\ name = "submenu" => builders["menu"].menu = <<>>
  /\ LET r == linux_add_item(builders[name].menu, native, a.menu_id, Title(a.menu_id),
                             None, a.enabled, a.selected, menu_type)
     IN /\ builders' = [builders EXCEPT ![name] = Live(r.self)]
        /\ native' = r.heap
        /\ handles' = Append(handles, r.ret)
        /\ mlast' = MenuOp("add_item", name, r.ret)
  /\ UNCHANGED <<ime, hkvars, call, target_os, events>>

\* <name>.add_native_item(item, menu_type)
LinuxAddNativeItem(name, item, menu_type) ==
  /\ target_os = "linux"
  /\ builders[name].live
  /\ Assembling
  /\ name = "submenu" => builders["menu"].menu = <<>>
  /\ LET r == linux_add_native_item(builders[name].menu, native, item, menu_type)
     IN /\ builders' = [builders EXCEPT ![name] = Live(r.self)]
        /\ native' = r.heap
        /\ mlast' = MenuOp("add_native_item", name, r.ret)
  /\ UNCHANGED <<ime, hkvars, call, target_os, handles, events>>

\* menu.add_submenu(title, true, submenu): the submenu is moved into the menu
LinuxAddSubmenu ==
  /\ target_os = "linux"
  /\ builders["menu"].live /\ builders["submenu"].live
  /\ Assembling
  /\ LET r == linux_add_submenu(builders["menu"].menu, native, "submenu", TRUE,
                                builders["submenu"].menu)
     IN /\ builders' = [builders EXCEPT !["menu"] = Live(r.self),
                                       !["submenu"] = Moved]
        /\ native' = r.heap
        /\ mlast' = MenuOp("add_submenu", "menu", r.ret)
  /\ UNCHANGED <<ime, hkvars, call, target_os, handles, events>>

\* initialize(window_id, menu.clone(), ..): the menu bar of the next window
\* is built from the menu; the application keeps its own value
LinuxInitialize ==
  /\ target_os = "linux"
  /\ builders["menu"].live
  /\ Materializing
  /\ LET window_id == mlast.inits + 1
         r == linux_initialize(window_id, builders["menu"].menu, native)
     IN /\ native' = r.heap
        /\ mlast' = MenuOp("initialize",
                           [menu |-> builders["menu"].menu, window_id |-> window_id],
                           r.ret)
  /\ UNCHANGED <<ime, hkvars, call, target_os, builders, handles, events>>

\* The widgets that are a child of some menu shell
Shown(heap) ==
  {w \in 1..Len(heap) :
     \E m \in 1..Len(heap) : \E i \in 1..Len(heap[m].children) :
       heap[m].children[i] = w}

\* StatusbarBuilder::new(icon, items).build(window_target), which calls
\* Statusbar::initialize, by a program that has assembled no menu
LinuxStatusbarInitialize(status_bar) ==
  /\ target_os = "linux"
  /\ mlast.op = None
  /\ LET r == StatusbarBuilder_build(native, status_bar)
     IN /\ native' = r.heap
        /\ mlast' = MenuOp("Statusbar::initialize", status_bar,
                           [result |-> r.initialize, menu |-> r.menu,
                            build |-> r.ret])
  /\ UNCHANGED <<ime, hkvars, call, target_os, builders, handles, events>>

\* What the user or the system did to a native item: the item, its kind,
\* the MenuId of a custom item, the menu type it was materialized for
Activation(target, kind, menu_id, menu_type, effect) ==
  [target |-> target, kind |-> kind, menu_id |-> menu_id,
   menu_type |-> menu_type, effect |-> effect]

\* The kind of a widget, and the MenuId of the application's handle for it
LinuxHandles(w) == {h \in 1..Len(handles) : handles[h].gtk_item = w}
LinuxKind(w) ==
  IF LinuxHandles(w) # {} THEN "Custom"
  ELSE IF native[w].handlers # <<>> THEN "StatusItem"
  ELSE IF native[w].type = "SeparatorMenuItem" THEN "Separator"
  ELSE IF native[w].submenu # 0 THEN "Submenu"
  ELSE "Native"
LinuxMenuId(w) ==
  IF LinuxHandles(w) # {} THEN handles[CHOOSE h \in LinuxHandles(w) : TRUE].id
  ELSE None

\* The user activates a sensitive widget of a menu on screen: GTK runs the
\* handlers of its activate signal in the order they were connected
LinuxActivate(w) ==
  /\ target_os = "linux"
  /\ w \in Shown(native)
  /\ native[w].sensitive
  /\ mlast.activations < MaxActivations
  /\ events' = events \o native[w].handlers
  /\ mlast' = MenuOp("activate",
                     Activation(w, LinuxKind(w), LinuxMenuId(w), "Menubar", None),
                     None)
  /\ UNCHANGED <<ime, hkvars, call, target_os, builders, handles, native>>

NextLinux ==
  \/ \E a \in CustomArgs : LinuxAddItem("menu", a, "Menubar")
  \/ \E a \in SubmenuArgs : LinuxAddItem("submenu", a, "Menubar")
  \/ \E item \in NativeItems : LinuxAddNativeItem("menu", item, "Menubar")
  \/ LinuxAddNativeItem("submenu", "Separator", "Menubar")
  \/ LinuxAddSubmenu
  \/ LinuxInitialize
  \/ \E icon \in Icons, items \in SeqsUpTo(StatusItems, MaxAdds) :
       LinuxStatusbarInitialize([icon |-> icon, items |-> items])
  \/ \E w \in 1..Len(native) : LinuxActivate(w)

------------------------------------------------------------------------------
(***************************************************************************)
(* platform_impl/windows/menu.rs: Menu over an HMENU, the window subclass  *)
(***************************************************************************)
\* Native objects of the Windows bridge: a window, a menu, a boxed handler
HWND == [type |-> "HWND", subclass |-> 0, menu |-> 0, destroyed |-> FALSE]
HMENU == [type |-> "HMENU", items |-> <<>>, destroyed |-> FALSE]
BoxMenuHandler(menu_type) ==
  [type |-> "MenuHandler", menu_type |-> menu_type, freed |-> FALSE]

\* AppendMenuW(hmenu, flags, id, text)
AppendMenuW(heap, hmenu, flags, uIDNewItem, text) ==
  [heap EXCEPT ![hmenu].items =
     Append(@, [flags |-> flags, id |-> uIDNewItem, text |-> text])]

\* DestroyMenu(hmenu): the menu and the popups of its entries are destroyed
RECURSIVE DestroyMenu(_, _)
DestroyMenu(heap, hmenu) ==
  LET RECURSIVE entries(_, _)
      entries(h, i) ==
        IF i > Len(heap[hmenu].items) THEN h
        ELSE IF "MF_POPUP" \in heap[hmenu].items[i].flags
        THEN entries(DestroyMenu(h, heap[hmenu].items[i].id), i + 1)
        ELSE entries(h, i + 1)
  IN [entries(heap, 1) EXCEPT ![hmenu].destroyed = TRUE]

\* impl Drop for Menu
windows_Menu_drop(self, heap) == DestroyMenu(heap, self.hmenu)

\* Menu::new: CreateMenu
windows_Menu_new(heap) ==
  LET hmenu == Alloc(heap, HMENU)
  IN [heap |-> hmenu.heap, ret |-> [hmenu |-> hmenu.ref]]

\* Menu::into_hmenu
into_hmenu(self) == self.hmenu

\* MenuItem values: a native action is its name, the other variants records
MenuItemSubmenu(title, enabled, menu) ==
  [variant |-> "Submenu", title |-> title, enabled |-> enabled, menu |-> menu]
MenuItemCustom(custom_menu_item) ==
  [variant |-> "Custom", item |-> custom_menu_item]
MenuItemNative(name) == [variant |-> name]

\* struct CustomMenuItem(u32, HMENU)
CustomMenuItem(menu_id, hmenu) == [id |-> menu_id, hmenu |-> hmenu]

\* Menu::add_item
windows_add_item(self, heap, item, menu_type) ==
  CASE item.variant = "Separator" ->
         [heap |-> AppendMenuW(heap, self.hmenu, {"MF_SEPARATOR"}, 0, None),
          ret |-> None]
    [] item.variant = "Submenu" ->
         [heap |-> AppendMenuW(heap, self.hmenu,
                               {"MF_POPUP"} \cup
                                 (IF item.enabled THEN {} ELSE {"MF_DISABLED"}),
                               into_hmenu(item.menu), item.title),
          ret |-> None]
    [] item.variant = "Custom" ->
         [heap |-> heap, ret |-> CustomMenuItem(item.item.id, self.hmenu)]
    [] item.variant = "Cut" ->
         [heap |-> AppendMenuW(heap, self.hmenu, {"MF_STRING"}, CUT_ID, "Cut"),
          ret |-> None]
    [] item.variant = "Copy" ->
         [heap |-> AppendMenuW(heap, self.hmenu, {"MF_STRING"}, COPY_ID, "Copy"),
          ret |-> None]
    [] item.variant = "Paste" ->
         [heap |-> AppendMenuW(heap, self.hmenu, {"MF_STRING"}, PASTE_ID, "Paste"),
          ret |-> None]
    [] OTHER -> [heap |-> heap, ret |-> None]

\* Menu::add_custom_item
windows_add_custom_item(self, heap, menu_id, menu_type, text, key, enabled, selected) ==
  LET flags == {"MF_STRING"}
                 \cup (IF enabled THEN {} ELSE {"MF_GRAYED"})
                 \cup (IF selected THEN {"MF_CHECKED"} ELSE {})
  IN [heap |-> AppendMenuW(heap, self.hmenu, flags, menu_id, text),
      ret |-> CustomMenuItem(menu_id, self.hmenu)]

\* windows::menu::initialize for a RawWindowHandle::Windows: the handler is
\* boxed, the subclass installed with the box as its reference data (an
\* installed subclass only has its reference data replaced), the menu set
windows_initialize(menu_builder, hwnd, menu_handler, heap) ==
  LET sender == Alloc(heap, menu_handler)
      menu == into_hmenu(menu_builder)
  IN [heap |-> [sender.heap EXCEPT ![hwnd].subclass = sender.ref,
                                   ![hwnd].menu = menu],
      ret |-> menu]

\* MenuHandler::send_click_event: the event its send_event closure is given
send_click_event(self, menu_id) ==
  [window_id |-> None, menu_id |-> menu_id, origin |-> self.menu_type]

\* A WPARAM (usize, 64 bits) is hi * 2^32 + lo, kept as its two halves
WParam(hi, lo) == [hi |-> hi, lo |-> lo]

\* `w_param as u32`: the low 32 bits
AsU32(w_param) == w_param.lo

\* The arms CUT_ID, COPY_ID, PASTE_ID of `match w_param`
EditCommandIds == {WParam(0, CUT_ID), WParam(0, COPY_ID), WParam(0, PASTE_ID)}

\* A subclass_proc whose edit commands also go on to the handler
subclass_proc_edit_falls_through(heap, channel, hwnd, u_msg, w_param, data) ==
  CASE u_msg = "WM_COMMAND" ->
         IF heap[data].freed
         THEN {[heap |-> heap, events |-> channel, effect |-> "use after free"]}
         ELSE {[heap |-> heap,
                events |-> Append(channel,
                                  send_click_event(heap[data], AsU32(w_param))),
                effect |-> IF w_param \in EditCommandIds
                           THEN "execute_edit_command" ELSE "send_click_event"]}
    [] u_msg = "WM_DESTROY" ->
         {[heap |-> [heap EXCEPT ![data].freed = TRUE], events |-> channel,
           effect |-> "free"]}
    [] OTHER ->
         {[heap |-> heap, events |-> channel, effect |-> "DefSubclassProc"]}

\* subclass_proc: the outcomes of one message. Reading or freeing a handler
\* box that was freed is undefined behaviour: the read may find any
\* MenuHandler or fault, so an event of either origin or none may follow.
subclass_proc(heap, channel, hwnd, u_msg, w_param, data) ==
  CASE u_msg = "WM_COMMAND" /\ w_param \in EditCommandIds ->
         {[heap |-> heap, events |-> channel, effect |-> "execute_edit_command"]}
    [] u_msg = "WM_COMMAND" /\ w_param \notin EditCommandIds ->
         IF heap[data].freed
         THEN {[heap |-> heap, events |-> channel, effect |-> "use after free"]}
                \cup {[heap |-> heap,
                       events |-> Append(channel,
                                         send_click_event([menu_type |-> t],
                                                          AsU32(w_param))),
                       effect |-> "use after free"] : t \in MenuTypes}
         ELSE {[heap |-> heap,
                events |-> Append(channel,
                                  send_click_event(heap[data], AsU32(w_param))),
                effect |-> "send_click_event"]}
    [] u_msg = "WM_DESTROY" ->
         IF heap[data].freed
         THEN {[heap |-> heap, events |-> channel, effect |-> "double free"]}
         ELSE {[heap |-> [heap EXCEPT ![data].freed = TRUE], events |-> channel,
                effect |-> "free"]}
    [] OTHER ->
         {[heap |-> heap, events |-> channel, effect |-> "DefSubclassProc"]}

\* The entries of a menu and of its popups: (hmenu, index) pairs
RECURSIVE MenuEntries(_, _)
MenuEntries(heap, hmenu) ==
  {<<hmenu, i>> : i \in 1..Len(heap[hmenu].items)}
    \cup UNION {MenuEntries(heap, heap[hmenu].items[i].id) :
                 i \in {j \in 1..Len(heap[hmenu].items) :
                          "MF_POPUP" \in heap[hmenu].items[j].flags}}

\* An entry the user can pick: a string entry that is neither grayed nor
\* disabled; picking it posts WM_COMMAND with its id
Selectable(entry) ==
  /\ "MF_STRING" \in entry.flags
  /\ entry.flags \cap {"MF_GRAYED", "MF_DISABLED"} = {}

\* The application's handle for an entry, if it has one
HandleFor(hmenu, entry) ==
  {h \in 1..Len(handles) :
     handles[h].hmenu = hmenu /\ handles[h].id = entry.id
       /\ entry.text = Title(entry.id)}

\* <name>.add_item(item, menu_type) for a native action
WindowsAddItem(name, item, menu_type) ==
  /\ target_os = "windows"
  /\ builders[name].live
  /\ Assembling
  /\ LET r == windows_add_item(builders[name].menu, native, MenuItemNative(item),
                               menu_type)
     IN /\ native' = r.heap
        /\ mlast' = MenuOp("add_native_item", name, r.ret)
  /\ UNCHANGED <<ime, hkvars, call, target_os, builders, handles, events>>

\* menu.add_item(MenuItem::Submenu(title, true, submenu), menu_type)
WindowsAddSubmenu ==
  /\ target_os = "windows"
  /\ builders["menu"].live /\ builders["submenu"].live
  /\ Assembling
  /\ LET r == windows_add_item(builders["menu"].menu, native,
                               MenuItemSubmenu("submenu", TRUE,
                                               builders["submenu"].menu),
                               "Menubar")
     IN /\ native' = r.heap
        /\ mlast' = MenuOp("add_submenu", "menu", r.ret)
  /\ builders' = [builders EXCEPT !["submenu"] = Moved]
  /\ UNCHANGED <<ime, hkvars, call, target_os, handles, events>>

\* <name>.add_custom_item(id, menu_type, title, None, enabled, selected)
WindowsAddCustomItem(name, a, menu_type) ==
  /\ target_os = "windows"
  /\ builders[name].live
  /\ Assembling
  /\ name = "submenu" =>
       (builders["menu"].live /\ native[builders["menu"].menu.hmenu].items = <<>>)
  /\ LET r == windows_add_custom_item(builders[name].menu, native, a.menu_id,
                                      menu_type, Title(a.menu_id), None,
                                      a.enabled, a.selected)
     IN /\ native' = r.heap
        /\ handles' = Append(handles, r.ret)
        /\ mlast' = MenuOp("add_custom_item", name, r.ret)
  /\ UNCHANGED <<ime, hkvars, call, target_os, builders, events>>

\* The window each menu of the application is for, and the menu type of
\* the handler the application creates for that window
WindowOf(name) == IF name = "menu" THEN 1 ELSE 2
WindowMenuType(hwnd) == IF hwnd = 1 THEN "Menubar" ELSE "SystemTray"

\* initialize(<name>, hwnd, MenuHandler::new(send_event, menu_type)): the
\* menu is moved into the call
WindowsInitialize(name) ==
  /\ target_os = "windows"
  /\ builders[name].live
  /\ Materializing
  /\ \A other \in WindowIds : ~native[other].destroyed
  /\ LET hwnd == WindowOf(name)
         menu_type == WindowMenuType(hwnd)
         r == windows_initialize(builders[name].menu, hwnd,
                                 BoxMenuHandler(menu_type), native)
     IN /\ native' = r.heap
        /\ mlast' = MenuOp("initialize",
                           [menu |-> builders[name].menu, window_id |-> hwnd,
                            menu_type |-> menu_type],
                           r.ret)
  /\ builders' = [builders EXCEPT ![name] = Moved]
  /\ UNCHANGED <<ime, hkvars, call, target_os, handles, events>>

\* initialize(submenu, hwnd, MenuHandler::new(send_event, menu_type)) on the
\* window that has the menu bar already: the window gets a second menu and
\* a second handler
WindowsInitializeAgain ==
  /\ target_os = "windows"
  /\ builders["submenu"].live
  /\ Materializing
  /\ LET hwnd == WindowOf("menu")
         menu_type == WindowMenuType(hwnd)
         r == windows_initialize(builders["submenu"].menu, hwnd,
                                 BoxMenuHandler(menu_type), native)
     IN /\ native[hwnd].subclass # 0
        /\ ~native[hwnd].destroyed
        /\ native' = r.heap
        /\ mlast' = MenuOp("initialize",
                           [menu |-> builders["submenu"].menu, window_id |-> hwnd,
                            menu_type |-> menu_type],
                           r.ret)
  /\ builders' = [builders EXCEPT !["submenu"] = Moved]
  /\ UNCHANGED <<ime, hkvars, call, target_os, handles, events>>

\* The user picks an entry of the menu of a window, or of one of its
\* popups. For an entry that can be picked the system posts WM_COMMAND
\* with the entry's id, which the subclass procedure handles; for a
\* separator, a popup or a grayed entry it posts nothing.
WindowsClick(hwnd, hmenu, i) ==
  /\ target_os = "windows"
  /\ \A other \in WindowIds : ~native[other].destroyed
  /\ native[hwnd].subclass # 0
  /\ <<hmenu, i>> \in MenuEntries(native, native[hwnd].menu)
  /\ mlast.activations < MaxActivations
  /\ LET entry == native[hmenu].items[i]
         kind == IF HandleFor(hmenu, entry) # {} THEN "Custom"
                 ELSE IF "MF_SEPARATOR" \in entry.flags THEN "Separator"
                 ELSE IF "MF_POPUP" \in entry.flags THEN "Submenu"
                 ELSE "Native"
         menu_type == WindowMenuType(hwnd)
     IN IF Selectable(entry)
        THEN \E r \in subclass_proc(native, events, hwnd, "WM_COMMAND",
                                    WParam(0, entry.id), native[hwnd].subclass) :
               /\ native' = r.heap
               /\ events' = r.events
               /\ mlast' = MenuOp("activate",
                                  Activation(<<hmenu, i>>, kind, entry.id,
                                             menu_type, r.effect), None)
        ELSE /\ UNCHANGED <<ime, native, events>>
             /\ mlast' = MenuOp("activate",
                                Activation(<<hmenu, i>>, kind, entry.id,
                                           menu_type, None), None)
  /\ UNCHANGED <<ime, hkvars, call, target_os, builders, handles>>

\* Nothing is known of a process after undefined behaviour: its run ends
Defined ==
  ~(mlast.op = "late_command" /\ mlast.arg.effect = "use after free")

\* The window is destroyed: WM_DESTROY reaches the subclass procedure, and
\* the system destroys the menu of the window
WindowsDestroy(hwnd) ==
  /\ target_os = "windows"
  /\ Defined
  /\ ~native[hwnd].destroyed
  /\ native[hwnd].subclass # 0
  /\ \E r \in subclass_proc(native, events, hwnd, "WM_DESTROY", WParam(0, 0),
                             native[hwnd].subclass) :
       /\ native' = [DestroyMenu(r.heap, native[hwnd].menu)
                       EXCEPT ![hwnd].destroyed = TRUE]
       /\ events' = r.events
       /\ mlast' = MenuOp("destroy", hwnd, r.effect)
  /\ UNCHANGED <<ime, hkvars, call, target_os, builders, handles>>

\* A WM_COMMAND reaches the window after WM_DESTROY (a notification of a
\* child that is being destroyed, a message sent from another handler):
\* the subclass is never removed, so subclass_proc still runs
WindowsLateCommand(hwnd, w_param) ==
  /\ target_os = "windows"
  /\ Defined
  /\ native[hwnd].destroyed
  /\ native[hwnd].subclass # 0
  /\ mlast.activations < MaxActivations
  /\ \E r \in subclass_proc(native, events, hwnd, "WM_COMMAND", WParam(0, w_param),
                             native[hwnd].subclass) :
       /\ native' = r.heap
       /\ events' = r.events
       /\ mlast' = MenuOp("late_command",
                          Activation(hwnd, "WM_COMMAND", w_param, None, r.effect),
                          None)
  /\ UNCHANGED <<ime, hkvars, call, target_os, builders, handles>>

\* Other code of the process sends the window a WM_COMMAND of its own
\* (SendMessage), with any w_param
WindowsSendCommand(hwnd, w_param) ==
  /\ target_os = "windows"
  /\ \A other \in WindowIds : ~native[other].destroyed
  /\ native[hwnd].subclass # 0
  /\ mlast.activations < MaxActivations
  /\ \E r \in subclass_proc(native, events, hwnd, "WM_COMMAND", w_param,
                             native[hwnd].subclass) :
       /\ native' = r.heap
       /\ events' = r.events
       /\ mlast' = MenuOp("command",
                          Activation(hwnd, "WM_COMMAND", w_param,
                                     WindowMenuType(hwnd), r.effect),
                          None)
  /\ UNCHANGED <<ime, hkvars, call, target_os, builders, handles>>

NextWindows ==
  \/ \E a \in CustomArgs : WindowsAddCustomItem("menu", a, "Menubar")
  \/ \E a \in SubmenuArgs : WindowsAddCustomItem("submenu", a, "Menubar")
  \/ \E item \in {"Separator", "Services"} : WindowsAddItem("menu", item, "Menubar")
  \/ WindowsAddSubmenu
  \/ \E name \in MenuNames : WindowsInitialize(name)
  \/ WindowsInitializeAgain
  \/ \E hwnd \in WindowIds, hmenu \in 1..Len(native) :
       \E i \in 1..MaxAdds : WindowsClick(hwnd, hmenu, i)
  \/ WindowsDestroy(WindowOf("menu"))
  \/ WindowsLateCommand(WindowOf("menu"), 1)
  \/ \E w_param \in {WParam(1, CUT_ID), WParam(0, PASTE_ID)} :
       WindowsSendCommand(WindowOf("menu"), w_param)

\* Two windows exist; the application has created two menus with Menu::new
InitWindows ==
  /\ InitMenuOn("windows")
  /\ LET windows == <<HWND, HWND>>
         menu == windows_Menu_new(windows)
         submenu == windows_Menu_new(menu.heap)
     IN /\ native = submenu.heap
        /\ builders = [name \in MenuNames |->
                         IF name = "menu" THEN Live(menu.ret) ELSE Live(submenu.ret)]

\* The application has created two menus with Menu::new
InitLinux ==
  /\ InitMenuOn("linux")
  /\ native = <<>>
  /\ builders = [name \in MenuNames |-> Live(linux_Menu_new)]


------------------------------------------------------------------------------
(***************************************************************************)
(* platform_impl/macos/menu.rs: initialize, TaoMenuItem, send_event        *)
(***************************************************************************)
\* crate::menu::Menu and MenuItem as initialize reads them
MacMenu(title, items) == [title |-> title, items |-> items]
MacCustom(menu_id) ==
  [variant |-> "Custom",
   custom_menu |-> [id |-> menu_id, name |-> Title(menu_id),
                    keyboard_accelerators |-> None]]

\* Native objects of the macOS bridge
NSApplication == [type |-> "NSApplication", main_menu |-> 0, services_menu |-> 0]
NSMenu(title) ==
  [type |-> "NSMenu", title |-> title, items |-> <<>>, released |-> FALSE]
NSMenuItem(class, separator) ==
  [type |-> class, title |-> None, action |-> None, target |-> 0,
   block_ptr |-> 0, submenu |-> 0, separator |-> separator,
   dealloced |-> FALSE]
Action(menu_id) == [type |-> "Action", id |-> menu_id, freed |-> FALSE]
NSApp == 1

\* NSMenu addItem:
addItem(heap, menu, item) == [heap EXCEPT ![menu].items = Append(@, item)]

\* make_menu_alloc: an instance of TaoMenuItem, its ivar BLOCK_PTR zero
make_menu_alloc(heap) == Alloc(heap, NSMenuItem("TaoMenuItem", FALSE))

\* An item that fires the menu bar's handler whatever its menu type
make_menu_item_from_alloc_menubar(heap, alloc, title, selector, key_equivalent, menu_type) ==
  LET action == IF selector # None THEN selector ELSE "fireMenubarAction:"
  IN [heap |-> [heap EXCEPT ![alloc].title = title, ![alloc].action = action],
      ref |-> alloc]

\* make_menu_item_from_alloc: without a selector the item fires the handler
\* of its menu type
make_menu_item_from_alloc(heap, alloc, title, selector, key_equivalent, menu_type) ==
  LET action == IF selector # None THEN selector
                ELSE IF menu_type = "Menubar" THEN "fireMenubarAction:"
                ELSE "fireStatusbarAction:"
  IN [heap |-> [heap EXCEPT ![alloc].title = title, ![alloc].action = action],
      ref |-> alloc]

\* make_custom_menu_item: the id is boxed in an Action, BLOCK_PTR set to the
\* box and the item made its own target
make_custom_menu_item(heap, menu_id, title, selector, key_equivalent, menu_type) ==
  LET alloc == make_menu_alloc(heap)
      ptr == Alloc(alloc.heap, Action(menu_id))
      set == [ptr.heap EXCEPT ![alloc.ref].block_ptr = ptr.ref,
                              ![alloc.ref].target = alloc.ref]
  IN make_menu_item_from_alloc(set, alloc.ref, title, selector, key_equivalent,
                               menu_type)

\* make_menu_item
make_menu_item(heap, title, selector, key_equivalent, menu_type) ==
  LET alloc == make_menu_alloc(heap)
  IN make_menu_item_from_alloc(alloc.heap, alloc.ref, title, selector,
                               key_equivalent, menu_type)

\* The arms of initialize: the native item of one MenuItem
macos_item_obj(heap, item) ==
  CASE item.variant = "Custom" ->
         make_custom_menu_item(heap, item.custom_menu.id, item.custom_menu.name,
                               None, item.custom_menu.keyboard_accelerators,
                               "Menubar")
    [] item.variant = "Separator" -> Alloc(heap, NSMenuItem("NSMenuItem", TRUE))
    [] item.variant = "Copy" ->
         make_menu_item(heap, "Copy", "copy:", "c", "Menubar")
    [] item.variant = "Services" ->
         LET made == make_menu_item(heap, "Services", None, None, "Menubar")
         IN [heap |-> [made.heap EXCEPT ![made.ref].submenu =
                                          made.heap[NSApp].services_menu],
             ref |-> made.ref]

\* initialize, the loop over the items of one menu
RECURSIVE macos_add_items(_, _, _)
macos_add_items(heap, menu_object, items) ==
  IF items = <<>> THEN heap
  ELSE LET item_obj == macos_item_obj(heap, Head(items))
       IN macos_add_items(addItem(item_obj.heap, menu_object, item_obj.ref),
                          menu_object, Tail(items))

\* initialize, the loop over the menus
RECURSIVE macos_add_menus(_, _, _)
macos_add_menus(heap, menubar, menu) ==
  IF menu = <<>> THEN heap
  ELSE LET menu_item == Alloc(heap, NSMenuItem("NSMenuItem", FALSE))
           added == addItem(menu_item.heap, menubar, menu_item.ref)
           menu_object == Alloc(added, NSMenu(Head(menu).title))
           filled == macos_add_items(menu_object.heap, menu_object.ref,
                                     Head(menu).items)
           set == [filled EXCEPT ![menu_item.ref].submenu = menu_object.ref]
       IN macos_add_menus(set, menubar, Tail(menu))

\* macos::menu::initialize
macos_initialize(heap, menu) ==
  LET menubar == Alloc(heap, NSMenu(None))
      built == macos_add_menus(menubar.heap, menubar.ref, menu)
  IN [heap |-> [built EXCEPT ![NSApp].main_menu = menubar.ref],
      ret |-> menubar.ref]

\* send_event: the outcomes. BLOCK_PTR is read and dereferenced whatever
\* it holds; a null or freed pointer is undefined behaviour.
send_event(heap, channel, this, origin) ==
  LET ptr == heap[this].block_ptr
  IN IF ptr = 0 \/ heap[ptr].freed
     THEN {[events |-> channel, effect |-> "invalid read"]}
            \cup {[events |-> Append(channel, [window_id |-> None, menu_id |-> i,
                                              origin |-> origin]),
                   effect |-> "invalid read"] : i \in MenuIds}
     ELSE {[events |-> Append(channel, [window_id |-> None,
                                        menu_id |-> heap[ptr].id,
                                        origin |-> origin]),
            effect |-> "queue_event"]}

\* fire_menu_bar_click and fire_status_bar_click
fire_menu_bar_click(heap, channel, this) ==
  send_event(heap, channel, this, "Menubar")
fire_status_bar_click(heap, channel, this) ==
  send_event(heap, channel, this, "SystemTray")

\* dealloc_custom_menuitem
dealloc_custom_menuitem(heap, this) ==
  LET ptr == heap[this].block_ptr
      freed == IF ptr # 0 THEN [heap EXCEPT ![ptr].freed = TRUE] ELSE heap
  IN [freed EXCEPT ![this].dealloced = TRUE]

\* The items a menu of the model is made of
MacosItems(name) ==
  IF name = "menu"
  THEN {MacCustom(1), [variant |-> "Separator"], [variant |-> "Copy"],
        [variant |-> "Services"]}
  ELSE {MacCustom(2)}

\* The native objects every macOS program has: the application, and the
\* menu of its status item
StatusMenu == 2

\* The application has written down two menus of at most MaxAdds items
InitMacos ==
  /\ InitMenuOn("macos")
  /\ native = <<NSApplication, NSMenu("status")>>
  /\ \E items \in SeqsUpTo(MacosItems("menu"), MaxAdds) :
       \E subitems \in SeqsUpTo(MacosItems("submenu"), MaxAdds - Len(items)) :
         builders = [name \in MenuNames |->
                       IF name = "menu" THEN Live(MacMenu("menu", items))
                       ELSE Live(MacMenu("submenu", subitems))]

\* initialize(vec![menu, submenu])
MacosInitialize ==
  /\ target_os = "macos"
  /\ mlast.inits = 0
  /\ mlast.activations = 0
  /\ LET menu == <<builders["menu"].menu, builders["submenu"].menu>>
         r == macos_initialize(native, menu)
     IN /\ native' = r.heap
        /\ mlast' = MenuOp("initialize", [menu |-> menu, window_id |-> None],
                           r.ret)
  /\ UNCHANGED <<ime, hkvars, call, target_os, builders, handles, events>>

\* The status bar builds an item of its menu:
\* make_custom_menu_item(id, title, None, None, MenuType::SystemTray)
MacosStatusItem(a) ==
  /\ target_os = "macos"
  /\ mlast.op = None
  /\ LET r == make_custom_menu_item(native, a.menu_id, Title(a.menu_id), None,
                                    None, "SystemTray")
     IN /\ native' = addItem(r.heap, StatusMenu, r.ref)
        /\ handles' = Append(handles, [id |-> a.menu_id, ns_item |-> r.ref])
        /\ mlast' = MenuOp("make_custom_menu_item", a, r.ref)
  /\ UNCHANGED <<ime, hkvars, call, target_os, builders, events>>

\* The items on screen: those of the status menu and of the menus of the
\* main menu, with the builder node each was made from
MacosOnScreen ==
  IF target_os # "macos" THEN {} ELSE
  {[item |-> native[StatusMenu].items[i], menu_type |-> "SystemTray",
    node |-> MacCustom(handles[i].id)] : i \in 1..Len(native[StatusMenu].items)}
  \cup
  (IF native[NSApp].main_menu = 0 THEN {}
   ELSE LET bar == native[native[NSApp].main_menu].items
            vec == <<builders["menu"].menu, builders["submenu"].menu>>
        IN UNION {{[item |-> native[native[bar[m]].submenu].items[i],
                    menu_type |-> "Menubar",
                    node |-> vec[m].items[i]]
                     : i \in 1..Len(native[native[bar[m]].submenu].items)}
                  : m \in 1..Len(bar)})

\* The user picks an item on screen. Cocoa sends the item's action to its
\* target; an item with a submenu opens it, a separator cannot be picked,
\* and an action without a target goes to the responder chain, on which
\* there is no TaoMenuItem.
MacosFire(on) ==
  /\ target_os = "macos"
  /\ on \in MacosOnScreen
  /\ ~native[on.item].dealloced
  /\ mlast.activations < MaxActivations
  /\ LET this == native[on.item]
         kind == IF on.node.variant \in {"Custom", "Separator"}
                 THEN on.node.variant ELSE "Native"
         menu_id == IF on.node.variant = "Custom" THEN on.node.custom_menu.id
                    ELSE None
         outcomes ==
           IF this.separator \/ this.submenu # 0 \/ this.target # on.item
           THEN {[events |-> events, effect |-> None]}
           ELSE IF this.action = "fireMenubarAction:"
           THEN fire_menu_bar_click(native, events, on.item)
           ELSE IF this.action = "fireStatusbarAction:"
           THEN fire_status_bar_click(native, events, on.item)
           ELSE {[events |-> events, effect |-> this.action]}
     IN \E r \in outcomes :
          /\ events' = r.events
          /\ mlast' = MenuOp("activate",
                             Activation(on.item, kind, menu_id, on.menu_type,
                                        r.effect), None)
  /\ UNCHANGED <<ime, hkvars, call, target_os, builders, handles, native>>

\* dealloc of every item of a sequence
RECURSIVE dealloc_items(_, _)
dealloc_items(heap, items) ==
  IF items = <<>> THEN heap
  ELSE dealloc_items(IF heap[Head(items)].type = "TaoMenuItem"
                     THEN dealloc_custom_menuitem(heap, Head(items))
                     ELSE [heap EXCEPT ![Head(items)].dealloced = TRUE],
                     Tail(items))
RECURSIVE dealloc_menus(_, _)
dealloc_menus(heap, bar) ==
  IF bar = <<>> THEN heap
  ELSE dealloc_menus(dealloc_items(heap, heap[heap[Head(bar)].submenu].items),
                     Tail(bar))

\* The application gives up its main menu: the menu and its items are
\* released, and dealloc runs for each item
MacosReleaseMainMenu ==
  /\ target_os = "macos"
  /\ native[NSApp].main_menu # 0
  /\ ~native[native[NSApp].main_menu].released
  /\ native' = [dealloc_menus(native, native[native[NSApp].main_menu].items)
                  EXCEPT ![native[NSApp].main_menu].released = TRUE]
  /\ mlast' = MenuOp("destroy", native[NSApp].main_menu, None)
  /\ UNCHANGED <<ime, hkvars, call, target_os, builders, handles, events>>

NextMacos ==
  \/ MacosInitialize
  \/ MacosStatusItem([menu_id |-> 1])
  \/ \E on \in MacosOnScreen : MacosFire(on)
  \/ MacosReleaseMainMenu

\* A program is built for one platform
InitMenu ==
  /\ NewManager
  /\ NoIme
  /\ call = [fn |-> None, arg |-> None, ret |-> None, done |-> FALSE]
  /\ (InitLinux \/ InitWindows \/ InitMacos)

NextMenu ==
  \/ NextLinux
  \/ NextWindows
  \/ NextMacos

SpecMenu == InitMenu /\ [][NextMenu]_vars

------------------------------------------------------------------------------
(***************************************************************************)
(* The handle of a custom item: set_enabled, set_title, set_selected       *)
(* (linux: MenuItemAttributes, windows: CustomMenuItem)                    *)
(***************************************************************************)
\* Titles are sequences of code points: "OK" and "\u{e9}" (e acute)
NewTitles == {<<79, 75>>, <<233>>}

\* MenuItemAttributes::set_enabled, set_title, set_selected
linux_set_enabled(self, heap, is_enabled) ==
  [heap EXCEPT ![self.gtk_item].sensitive = is_enabled]
linux_set_title(self, heap, title) ==
  [heap EXCEPT ![self.gtk_item].label = title]
linux_set_selected(self, heap, is_selected) ==
  IF heap[self.gtk_item].type = "CheckMenuItem"
  THEN [heap EXCEPT ![self.gtk_item].active = is_selected]
  ELSE heap

\* The bytes of a &str (UTF-8), for code points below 2048
RECURSIVE Utf8(_)
Utf8(title) ==
  IF title = <<>> THEN <<>>
  ELSE (IF title[1] < 128 THEN <<title[1]>>
        ELSE <<192 + (title[1] \div 64), 128 + (title[1] % 64)>>)
       \o Utf8(Tail(title))

\* The text an ...A function of the system reads from bytes: under the
\* ANSI code page 1252 one character for each byte (the bytes 129..159
\* do not occur in the model), under the code page 65001 the UTF-8 text
Cp1252(bytes) == [i \in 1..Len(bytes) |-> IF bytes[i] = 128 THEN 8364 ELSE bytes[i]]
AnsiTexts(title) == {Cp1252(Utf8(title)), title}

\* The entry with a command id: the first one in the menu and its popups
RECURSIVE FindItem(_, _, _, _)
FindItem(heap, hmenu, wID, i) ==
  IF i > Len(heap[hmenu].items) THEN <<>>
  ELSE LET entry == heap[hmenu].items[i]
           below == IF "MF_POPUP" \in entry.flags
                    THEN FindItem(heap, entry.id, wID, 1) ELSE <<>>
       IN IF below # <<>> THEN below
          ELSE IF "MF_POPUP" \notin entry.flags /\ entry.id = wID THEN <<hmenu, i>>
          ELSE FindItem(heap, hmenu, wID, i + 1)

\* EnableMenuItem, CheckMenuItem and SetMenuItemInfoA(.., MIIM_STRING) by
\* command id. A handle of a destroyed menu is not a menu: the call fails.
EnableMenuItem(heap, hMenu, uIDEnableItem, uEnable) ==
  LET at == IF heap[hMenu].destroyed THEN <<>>
            ELSE FindItem(heap, hMenu, uIDEnableItem, 1)
  IN IF at = <<>> THEN heap
     ELSE [heap EXCEPT ![at[1]].items[at[2]].flags =
             (@ \ {"MF_GRAYED", "MF_DISABLED"}) \cup uEnable]
CheckMenuItem(heap, hMenu, uIDCheckItem, uCheck) ==
  LET at == IF heap[hMenu].destroyed THEN <<>>
            ELSE FindItem(heap, hMenu, uIDCheckItem, 1)
  IN IF at = <<>> THEN heap
     ELSE [heap EXCEPT ![at[1]].items[at[2]].flags = (@ \ {"MF_CHECKED"}) \cup uCheck]
SetMenuItemInfoA(heap, hMenu, item, text) ==
  LET at == IF heap[hMenu].destroyed THEN <<>>
            ELSE FindItem(heap, hMenu, item, 1)
  IN IF at = <<>> THEN heap
     ELSE [heap EXCEPT ![at[1]].items[at[2]].text = text]

\* CustomMenuItem::set_enabled, set_title, set_selected: the heaps the
\* call can leave
windows_set_enabled(self, heap, enabled) ==
  {EnableMenuItem(heap, self.hmenu, self.id,
                  IF enabled THEN {} ELSE {"MF_DISABLED"})}
windows_set_title(self, heap, title) ==
  {SetMenuItemInfoA(heap, self.hmenu, self.id, text) : text \in AnsiTexts(title)}
windows_set_selected(self, heap, selected) ==
  {CheckMenuItem(heap, self.hmenu, self.id,
                 IF selected THEN {"MF_CHECKED"} ELSE {})}

\* A call of a method of the handle handles[h]
SetCall(h, op, value, heaps) ==
  /\ h \in 1..Len(handles)
  /\ mlast.mutations < MaxMutations
  /\ \E heap \in heaps :
       /\ native' = heap
       /\ mlast' = MenuOp(op, [handle |-> h, value |-> value], None)
  /\ UNCHANGED <<ime, hkvars, call, target_os, builders, handles, events>>

LinuxSetEnabled(h, is_enabled) ==
  /\ target_os = "linux"
  /\ h \in 1..Len(handles)
  /\ SetCall(h, "set_enabled", is_enabled,
             {linux_set_enabled(handles[h], native, is_enabled)})
LinuxSetTitle(h, title) ==
  /\ target_os = "linux"
  /\ h \in 1..Len(handles)
  /\ SetCall(h, "set_title", title, {linux_set_title(handles[h], native, title)})
LinuxSetSelected(h, is_selected) ==
  /\ target_os = "linux"
  /\ h \in 1..Len(handles)
  /\ SetCall(h, "set_selected", is_selected,
             {linux_set_selected(handles[h], native, is_selected)})

WindowsSetEnabled(h, enabled) ==
  /\ target_os = "windows"
  /\ h \in 1..Len(handles)
  /\ SetCall(h, "set_enabled", enabled,
             windows_set_enabled(handles[h], native, enabled))
WindowsSetTitle(h, title) ==
  /\ target_os = "windows"
  /\ h \in 1..Len(handles)
  /\ SetCall(h, "set_title", title, windows_set_title(handles[h], native, title))
WindowsSetSelected(h, selected) ==
  /\ target_os = "windows"
  /\ h \in 1..Len(handles)
  /\ SetCall(h, "set_selected", selected,
             windows_set_selected(handles[h], native, selected))

\* A Menu of the application goes out of scope
WindowsDrop(name) ==
  /\ target_os = "windows"
  /\ builders[name].live
  /\ mlast.mutations = 0
  /\ native' = windows_Menu_drop(builders[name].menu, native)
  /\ builders' = [builders EXCEPT ![name] = Moved]
  /\ mlast' = MenuOp("drop", name, None)
  /\ UNCHANGED <<ime, hkvars, call, target_os, handles, events>>

\* The programs that build menus of custom items, materialize them, and
\* use the handles of the items
InitHandle ==
  /\ NewManager
  /\ NoIme
  /\ call = [fn |-> None, arg |-> None, ret |-> None, done |-> FALSE]
  /\ (InitLinux \/ InitWindows)

NextHandle ==
  \/ \E a \in CustomArgs : LinuxAddItem("menu", a, "Menubar")
  \/ LinuxInitialize
  \/ \E h \in 1..MaxAdds, b \in BOOLEAN : LinuxSetEnabled(h, b)
  \/ \E h \in 1..MaxAdds, t \in NewTitles : LinuxSetTitle(h, t)
  \/ \E h \in 1..MaxAdds, b \in BOOLEAN : LinuxSetSelected(h, b)
  \/ \E a \in CustomArgs : WindowsAddCustomItem("menu", a, "Menubar")
  \/ \E a \in SubmenuArgs : WindowsAddCustomItem("submenu", a, "Menubar")
  \/ WindowsAddSubmenu
  \/ WindowsInitialize("menu")
  \/ WindowsDestroy(WindowOf("menu"))
  \/ \E name \in MenuNames : WindowsDrop(name)
  \/ \E h \in 1..MaxAdds, b \in BOOLEAN : WindowsSetEnabled(h, b)
  \/ \E h \in 1..MaxAdds, t \in NewTitles : WindowsSetTitle(h, t)
  \/ \E h \in 1..MaxAdds, b \in BOOLEAN : WindowsSetSelected(h, b)

SpecHandle == InitHandle /\ [][NextHandle]_vars

------------------------------------------------------------------------------
(***************************************************************************)
(* platform_impl/windows/minimal_ime.rs: MinimalIme                        *)
(***************************************************************************)
MaxPosted == 4   \* cap on the number of messages posted to the window

\* Messages: (msg_kind, wparam). WM_KEYFIRST..WM_KEYLAST holds the key and
\* character messages, not the WM_IME_ messages.
Msg(msg_kind, wparam) == [msg_kind |-> msg_kind, wparam |-> wparam]
InKeyRange(msg_kind) == msg_kind \in {"WM_KEYDOWN", "WM_CHAR", "WM_SYSCHAR"}
IsChar(msg_kind) == msg_kind \in {"WM_CHAR", "WM_SYSCHAR"}

\* The messages the model posts: the end of a composition, a key press,
\* and characters whose wparam is 'A', the two halves of a surrogate
\* pair, and a value of more than 16 bits
ImeMessages ==
  {Msg("WM_IME_ENDCOMPOSITION", 0), Msg("WM_KEYDOWN", 65),
   Msg("WM_CHAR", 65), Msg("WM_CHAR", 55357), Msg("WM_CHAR", 56832),
   Msg("WM_SYSCHAR", 65601)}

\* wparam.0 as u16
AsU16(wparam) == wparam % 65536

\* String::from_utf16(v).ok(): the chars of the string, or None for an
\* unpaired surrogate
NoString == [some |-> FALSE, chars |-> <<>>]
SomeString(chars) == [some |-> TRUE, chars |-> chars]
HighSurrogate(u) == u >= 55296 /\ u <= 56319
LowSurrogate(u) == u >= 56320 /\ u <= 57343
RECURSIVE from_utf16(_)
from_utf16(v) ==
  IF v = <<>> THEN SomeString(<<>>)
  ELSE IF LowSurrogate(v[1]) THEN NoString
  ELSE IF HighSurrogate(v[1])
  THEN IF Len(v) >= 2 /\ LowSurrogate(v[2])
       THEN LET rest == from_utf16(SubSeq(v, 3, Len(v)))
                c == 65536 + (v[1] - 55296) * 1024 + (v[2] - 56320)
            IN IF rest.some THEN SomeString(<<c>> \o rest.chars) ELSE NoString
       ELSE NoString
  ELSE LET rest == from_utf16(Tail(v))
       IN IF rest.some THEN SomeString(<<v[1]>> \o rest.chars) ELSE NoString

\* PeekMessageW(&mut next_msg, hwnd, WM_KEYFIRST, WM_KEYLAST, PM_NOREMOVE):
\* the first message of the queue within the range, if there is one
PeekMessageW(queue) ==
  LET hits == {i \in 1..Len(queue) : InKeyRange(queue[i].msg_kind)}
  IN IF hits = {} THEN [has_message |-> FALSE, message |-> None]
     ELSE [has_message |-> TRUE,
           message |-> queue[CHOOSE i \in hits : \A j \in hits : i <= j].msg_kind]

\* MinimalIme::default
MinimalIme == [getting_ime_text |-> FALSE, utf16parts |-> <<>>]

\* A process_message that forgets to clear the buffer
process_message_keeps_buffer(self, queue, msg_kind, wparam, result) ==
  IF msg_kind = "WM_IME_ENDCOMPOSITION"
  THEN [self |-> [self EXCEPT !.getting_ime_text = TRUE], result |-> result,
        ret |-> NoString]
  ELSE IF IsChar(msg_kind) /\ self.getting_ime_text
  THEN LET utf16parts == Append(self.utf16parts, AsU16(wparam))
           peek == PeekMessageW(queue)
           more_char_coming == peek.has_message /\ IsChar(peek.message)
       IN IF ~more_char_coming
          THEN [self |-> [getting_ime_text |-> FALSE, utf16parts |-> utf16parts],
                result |-> "Value(0)", ret |-> from_utf16(utf16parts)]
          ELSE [self |-> [self EXCEPT !.utf16parts = utf16parts],
                result |-> "Value(0)", ret |-> NoString]
  ELSE [self |-> self, result |-> result, ret |-> NoString]

\* MinimalIme::process_message: the MinimalIme afterwards, *result
\* afterwards, and the value returned. queue is the message queue of hwnd.
process_message(self, queue, msg_kind, wparam, result) ==
  IF msg_kind = "WM_IME_ENDCOMPOSITION"
  THEN [self |-> [self EXCEPT !.getting_ime_text = TRUE], result |-> result,
        ret |-> NoString]
  ELSE IF IsChar(msg_kind) /\ self.getting_ime_text
  THEN LET utf16parts == Append(self.utf16parts, AsU16(wparam))
           peek == PeekMessageW(queue)
           more_char_coming == peek.has_message /\ IsChar(peek.message)
       IN IF ~more_char_coming
          THEN [self |-> [getting_ime_text |-> FALSE, utf16parts |-> <<>>],
                result |-> "Value(0)", ret |-> from_utf16(utf16parts)]
          ELSE [self |-> [self EXCEPT !.utf16parts = utf16parts],
                result |-> "Value(0)", ret |-> NoString]
  ELSE [self |-> self, result |-> result, ret |-> NoString]

\* A window with a new MinimalIme and an empty message queue
InitIme ==
  /\ NewManager
  /\ NoMenu
  /\ call = [fn |-> None, arg |-> None, ret |-> None, done |-> FALSE]
  /\ ime = [op |-> "new", self |-> MinimalIme, queue |-> <<>>, posted |-> 0,
            hist |-> <<>>,
            msg |-> Msg(None, 0), before |-> MinimalIme, pending |-> <<>>,
            result_before |-> "DefWindowProc", result |-> "DefWindowProc",
            ret |-> NoString]

\* A message is posted to the window
ImePost(m) ==
  /\ ime.op # None
  /\ ime.posted < MaxPosted
  /\ ime' = [ime EXCEPT !.op = "post", !.queue = Append(@, m), !.posted = @ + 1]
  /\ UNCHANGED <<hkvars, menuvars, call>>

\* The message loop takes the first message off the queue and the window
\* procedure hands it to process_message
ImeDispatch ==
  /\ ime.op # None
  /\ ime.queue # <<>>
  /\ LET m == Head(ime.queue)
         queue == Tail(ime.queue)
         r == process_message(ime.self, queue, m.msg_kind, m.wparam,
                              "DefWindowProc")
     IN ime' = [ime EXCEPT !.op = "process_message", !.self = r.self,
                           !.queue = queue, !.msg = m, !.before = ime.self,
                           !.hist = Append(@, [msg |-> m,
                                     completes |-> r.self.getting_ime_text = FALSE
                                                   /\ ime.self.getting_ime_text]),
                           !.pending = queue,
                           !.result_before = "DefWindowProc",
                           !.result = r.result, !.ret = r.ret]
  /\ UNCHANGED <<hkvars, menuvars, call>>

NextIme ==
  \/ \E m \in ImeMessages : ImePost(m)
  \/ ImeDispatch

SpecIme == InitIme /\ [][NextIme]_vars


------------------------------------------------------------------------------
(***************************************************************************)
(* Properties of the HotKeyManager (SpecHotKey)                            *)
(***************************************************************************)

\* The hotkey of a stored entry, and structural presence of a hotkey
\* (same mods and same key) in a vector of entries.
EntryHotKey(entry) == entry.inner.hotkey
Present(v, hotkey) ==
  \E i \in 1..Len(v) :
    EntryHotKey(v[i]).mods = hotkey.mods /\ EntryHotKey(v[i]).key = hotkey.key

\* Some entry of v is a structurally different hotkey with the same identifier.
Collides(v, hotkey) ==
  \E i \in 1..Len(v) :
    EntryHotKey(v[i]) # hotkey /\ id(EntryHotKey(v[i])) = id(hotkey)

\* C1: register(h) with an equal hotkey already registered returns
\* Err(HotKeyAlreadyRegistered(h)) and leaves the registered set as it was:
\* same entries, same order, same size.
C1_DuplicateRegisterRejected ==
  (last.op = "register" /\ Present(last.before, last.hotkey)) =>
    /\ last.ret = Err(HotKeyAlreadyRegistered(last.hotkey))
    /\ registered_hotkeys = last.before
    /\ Len(registered_hotkeys) = Len(last.before)

C1_Witness ==
  /\ last.op = "register"
  /\ Present(last.before, last.hotkey)
  /\ Len(last.before) >= 2

\* C2: is_registered(h) is true exactly when an earlier register call with a
\* structurally equal hotkey returned Ok, and is_registered changes nothing.
C2_IsRegisteredIsMembership ==
  /\ \A h \in ManagerHotKeys :
       is_registered(registered_hotkeys, h) <=> h \in registered_ok
  /\ last.op = "is_registered" =>
       /\ last.ret = (last.hotkey \in registered_ok)
       /\ registered_hotkeys = last.before

C2_Witness ==
  /\ last.op = "is_registered"
  /\ last.ret = TRUE
  /\ Len(registered_hotkeys) >= 2
  /\ EntryHotKey(registered_hotkeys[Len(registered_hotkeys)]) # last.hotkey
  /\ \E h \in ManagerHotKeys : ~is_registered(registered_hotkeys, h)

\* C3: duplicate detection is structural, not by identifier: a hotkey that is
\* not registered but whose 16-bit identifier equals that of a registered,
\* structurally different hotkey is reported as not registered, and
\* registering it returns Ok.
C3_CollisionIsNoDuplicate ==
  /\ (last.op = "register" /\ Collides(last.before, last.hotkey)
        /\ ~Present(last.before, last.hotkey)) =>
       /\ last.ret.kind = "Ok"
       /\ EntryHotKey(last.ret.value) = last.hotkey
  /\ (last.op = "is_registered" /\ Collides(last.before, last.hotkey)
        /\ ~Present(last.before, last.hotkey)) =>
       last.ret = FALSE

C3_Witness ==
  /\ last.op = "register"
  /\ Collides(last.before, last.hotkey)
  /\ ~Present(last.before, last.hotkey)
  /\ last.ret.kind = "Ok"
  /\ Len(registered_hotkeys) = 2
  /\ id(EntryHotKey(registered_hotkeys[1])) = id(EntryHotKey(registered_hotkeys[2]))

\* C4: the manager offers the caller an unregister step that, for a hotkey
\* that is not registered, returns Err(HotKeyNotRegistered(hotkey)) and
\* leaves the registered set unchanged.
C4_UnregisterAbsentReturnsNotRegistered ==
  \A h \in ManagerHotKeys :
    ~Present(registered_hotkeys, h) =>
      ENABLED ( /\ NextHotKey
                /\ last'.op \notin {"is_registered"}
                /\ last'.ret.kind = "Err"
                /\ last'.ret.error = HotKeyNotRegistered(h)
                /\ registered_hotkeys' = registered_hotkeys )

------------------------------------------------------------------------------
(***************************************************************************)
(* Properties of matching and of the modifier conversion (SpecMatch)       *)
(***************************************************************************)

\* The flag a modifier name in a RawMods identifier stands for, and the
\* flags that the identifier of a RawMods value lists.
FlagOfName(name) ==
  CASE name = "Alt" -> ALT
    [] name = "Ctrl" -> CONTROL
    [] name = "Meta" -> SUPER
    [] name = "Shift" -> SHIFT
NameBits(r) == {FlagOfName(r[i]) : i \in 1..Len(r)}
FourFlags == {SHIFT, CONTROL, ALT, SUPER}

\* C7: matches(mods, key) is true exactly when key is the hotkey's key and
\* mods masked to {SHIFT, CONTROL, ALT, SUPER} is the set of flags the
\* hotkey's RawMods names; modifier states that agree on the four flags
\* give the same result.
C7_MatchesMasksToFourFlags ==
  (call.fn = "matches" /\ call.done) =>
    LET a == call.arg
    IN /\ call.ret <=> ( /\ a.key = a.hotkey.key
                         /\ a.modifiers \cap FourFlags = NameBits(a.hotkey.mods) )
       /\ \A m2 \in ModifiersState :
            (m2 \cap FourFlags = a.modifiers \cap FourFlags) =>
              (matches(a.hotkey, m2, a.key) <=> call.ret)

C7_Witness ==
  /\ call.fn = "matches" /\ call.done
  /\ call.ret = TRUE
  /\ Len(call.arg.hotkey.mods) = 2
  /\ ExtraBits \subseteq call.arg.modifiers

\* C8: RawMods -> ModifiersState is a bijection between the 16 RawMods
\* values and the 16 subsets of {ALT, CONTROL, SUPER, SHIFT}, and each value
\* is converted to exactly the flags its name lists.
C8_RawModsBijection ==
  (call.fn = "from_raw_mods" /\ call.done) =>
    /\ call.ret = NameBits(call.arg)
    /\ \A r2 \in RawMods : FromRawMods(r2) = call.ret => r2 = call.arg
    /\ \A flags \in SUBSET FourFlags : \E r \in RawMods : FromRawMods(r) = flags
    /\ Cardinality(RawMods) = 16
    /\ Cardinality({FromRawMods(r) : r \in RawMods}) = 16

C8_Witness ==
  /\ call.fn = "from_raw_mods" /\ call.done
  /\ call.arg = <<"Ctrl", "Meta">>
  /\ call.ret = {CONTROL, SUPER}

------------------------------------------------------------------------------
(***************************************************************************)
(* Properties of the pixel arithmetic (SpecDpi)                            *)
(***************************************************************************)

\* The integer part of a rational (towards zero), whether its fractional
\* part is at least one half, and whether it lies within the bounds of an
\* integer pixel type.
IntegerPart(q) == Sign(q.n) * (Abs(q.n) \div q.d)
FractionAtLeastHalf(q) == 2 * (Abs(q.n) % q.d) >= q.d
InRange(t, q) ==
  /\ q.n \div q.d >= IntMin(t)
  /\ ~AboveMax(t, -((-q.n) \div q.d))

\* The integer nearest to q, halves away from zero
NearestInteger(q) ==
  IF FractionAtLeastHalf(q) THEN IntegerPart(q) + Sign(q.n) ELSE IntegerPart(q)

\* C9: Pixel::cast to an integral pixel type rounds the f64 value to the
\* nearest integer: for an in-range value with fractional part >= 0.5 the
\* result is the next integer away from zero, otherwise the integer part.
C9_CastRoundsToNearest ==
  (call.fn = "cast" /\ call.done /\ call.arg.to \in PixelInts
     /\ InRange(call.arg.to, call.arg.v)) =>
    /\ call.ret.d = 1
    /\ call.ret.n = NearestInteger(call.arg.v)
    /\ FractionAtLeastHalf(call.arg.v) =>
         call.ret.n = IntegerPart(call.arg.v) + Sign(call.arg.v.n)
    /\ ~FractionAtLeastHalf(call.arg.v) => call.ret.n = IntegerPart(call.arg.v)

C9_Witness ==
  /\ call.fn = "cast" /\ call.done
  /\ call.arg.to = "i8" /\ call.arg.from = "f64"
  /\ call.arg.v = Rat(-3, 2)
  /\ call.ret = Rat(-2, 1)

\* C10: for a valid scale factor s, to_physical returns cast(c * s) and
\* to_logical returns cast(c / s) for every component c, each component
\* converted from its own input component only; for an integral target the
\* result is within half a unit of the exact product or quotient.
ExactConversion(c) ==
  IF c.fn = "to_physical"
  THEN [a \in DOMAIN c.arg.value |-> F64Mul(c.arg.value[a], c.arg.scale_factor.q)]
  ELSE [a \in DOMAIN c.arg.value |-> F64Div(c.arg.value[a], c.arg.scale_factor.q)]

C10_ConversionPerComponent ==
  (call.fn \in {"to_physical", "to_logical"} /\ call.done
     /\ call.arg.scale_factor \in ValidScales) =>
    /\ call.ret.panic = FALSE
    /\ DOMAIN call.ret.value = DOMAIN call.arg.value
    /\ \A a \in DOMAIN call.arg.value :
         LET exact == ExactConversion(call)[a]
             got == call.ret.value[a]
         IN /\ got = cast("f64", call.arg.to, exact)
            /\ call.arg.to = "f64" => got = exact
            /\ (call.arg.to \in PixelInts /\ InRange(call.arg.to, exact)) =>
                 /\ got.d = 1
                 /\ 2 * Abs(got.n * exact.d - exact.n) <= exact.d

C10_Witness ==
  /\ call.fn = "to_logical" /\ call.done
  /\ call.arg.to = "i32"
  /\ call.arg.scale_factor = F64Normal(Rat(5, 4))
  /\ call.arg.value = [x |-> Rat(3, 2), y |-> Rat(-1, 1)]
  /\ call.ret = Value([x |-> Rat(1, 1), y |-> Rat(-1, 1)])

\* The functions of dpi.rs that take a scale factor
ScaleFactorFunctions ==
  {"to_physical", "to_logical", "Unified::to_physical", "Unified::to_logical",
   "Size::clamp"}

\* C11: every conversion that takes a scale factor panics, and returns no
\* value, when the factor is zero, negative, subnormal, infinite or NaN:
\* $LogicalType::to_physical, $PhysicalType::to_logical, the unified
\* to_logical and to_physical on either variant, and Size::clamp.
C11_InvalidScaleFactorPanics ==
  (call.fn \in ScaleFactorFunctions /\ call.done
     /\ call.arg.scale_factor \in InvalidScales) =>
    call.ret.panic

\* |a - b| <= 1 for rationals a and b
WithinOneUnit(a, b) == Abs(a.n * b.d - b.n * a.d) <= a.d * b.d
NonNegative(value) == \A a \in DOMAIN value : value[a].n >= 0

\* C12 as claimed: for every valid scale factor s and every logical size L,
\* to_logical(to_physical(L, s), s) differs from L by at most one unit in
\* each component, also when the intermediate physical type is integral.
C12_RoundTripWithinOneUnit ==
  (call.fn = "round_trip" /\ NonNegative(call.arg.value)) =>
    /\ ~call.ret.panic
    /\ \A a \in DOMAIN call.arg.value :
         WithinOneUnit(call.ret.value[a], call.arg.value[a])

\* C12 as amended: for every valid scale factor s >= 1/2 and every logical
\* value L whose scaled components the intermediate physical pixel type can
\* represent, to_logical(to_physical(L, s), s) differs from L by at most
\* one unit in each component.
C12_RoundTripWithinOneUnitFromHalf ==
  (call.fn = "round_trip" /\ ~F64Less(call.arg.scale_factor.q, Rat(1, 2))
     /\ \A a \in DOMAIN call.arg.value :
          \/ call.arg.to = "f64"
          \/ InRange(call.arg.to,
                     F64Mul(call.arg.value[a], call.arg.scale_factor.q))) =>
    /\ ~call.ret.panic
    /\ \A a \in DOMAIN call.arg.value :
         WithinOneUnit(call.ret.value[a], call.arg.value[a])

C12_Witness ==
  /\ call.fn = "round_trip"
  /\ call.arg.from = "i32" /\ call.arg.to = "i32"
  /\ call.arg.scale_factor = F64Normal(Rat(1, 2))
  /\ call.arg.value = [x |-> Rat(1, 1), y |-> Rat(-1, 1)]
  /\ call.ret = Value([x |-> Rat(2, 1), y |-> Rat(-2, 1)])

\* A clamp argument in physical pixels, exactly
ExactPhysical(S, size, scale_factor) ==
  IF S = "LogicalSize<f64>"
  THEN [a \in DOMAIN size |-> F64Mul(size[a], scale_factor.q)]
  ELSE size

\* C13: for min <= max in both components and a valid scale factor, the
\* Size returned by Size::clamp(desired, min, max, s) has its width within
\* [min.width, max.width] and its height within [min.height, max.height],
\* compared in the same (physical) unit, for Physical and for Logical inputs.
C13_ClampWithinBounds ==
  (call.fn = "Size::clamp" /\ call.done
     /\ call.arg.scale_factor \in ValidScales
     /\ \A a \in {"width", "height"} :
          ~F64Less(call.arg.max[a], call.arg.min[a])) =>
    /\ ~call.ret.panic
    /\ \A a \in {"width", "height"} :
         LET lo == ExactPhysical(call.arg.S, call.arg.min, call.arg.scale_factor)[a]
             hi == ExactPhysical(call.arg.S, call.arg.max, call.arg.scale_factor)[a]
             got == call.ret.value.val[a]
         IN ~F64Less(got, lo) /\ ~F64Less(hi, got)

------------------------------------------------------------------------------
(***************************************************************************)
(* Properties of the menu bridges                                          *)
(***************************************************************************)
\* What a builder node is expected to look like once it is materialized
\* by GTK: a separator, an item with its label, or an item with its label
\* and the nodes of its submenu. Nodes without a GTK equivalent are skipped.
RECURSIVE LinuxNodes(_)
LinuxNodes(self) ==
  IF self = <<>> THEN <<>>
  ELSE LET node == Head(self)
           this ==
             CASE node.menu_type = "Submenu" ->
                    <<[kind |-> "Submenu", label |-> node.sub_menu.title,
                       items |-> LinuxNodes(node.sub_menu.menu)]>>
               [] node.menu_type = "Custom" ->
                    <<[kind |-> "Item", label |-> Title(node.custom_menu_item.id),
                       items |-> <<>>]>>
               [] node.menu_type = "Native" /\ node.menu_item = "Separator" ->
                    <<[kind |-> "Separator", label |-> None, items |-> <<>>]>>
               [] node.menu_type = "Native" /\ node.menu_item # "Separator" ->
                    IF linux_NativeLabel(node.menu_item) = None THEN <<>>
                    ELSE <<[kind |-> "Item",
                            label |-> linux_NativeLabel(node.menu_item),
                            items |-> <<>>]>>
       IN this \o LinuxNodes(Tail(self))

\* What the children of a GTK menu shell look like, in the shell's order
RECURSIVE LinuxChildren(_, _)
LinuxChildren(heap, children) ==
  IF children = <<>> THEN <<>>
  ELSE LET w == heap[Head(children)]
           this ==
             IF w.type = "SeparatorMenuItem"
             THEN [kind |-> "Separator", label |-> None, items |-> <<>>]
             ELSE IF w.submenu # 0
             THEN [kind |-> "Submenu", label |-> w.label,
                   items |-> LinuxChildren(heap, heap[w.submenu].children)]
             ELSE [kind |-> "Item", label |-> w.label, items |-> <<>>]
       IN <<this>> \o LinuxChildren(heap, Tail(children))

\* The same for the items of a macOS menu
MacosNodes(items) ==
  [i \in 1..Len(items) |->
     CASE items[i].variant = "Custom" ->
            [kind |-> "Item", label |-> items[i].custom_menu.name]
       [] items[i].variant = "Separator" -> [kind |-> "Separator", label |-> None]
       [] OTHER -> [kind |-> "Item", label |-> items[i].variant]]
MacosChildren(heap, items) ==
  [i \in 1..Len(items) |->
     IF heap[items[i]].separator THEN [kind |-> "Separator", label |-> None]
     ELSE [kind |-> "Item", label |-> heap[items[i]].title]]

\* C14: materialization preserves order recursively: the native children of
\* a materialized menu are the builder's items in the order of the add_item,
\* add_native_item and add_submenu calls, and so are the children of every
\* submenu at every depth (GTK menu bar; macOS main menu and its menus).
C14_OrderPreserved ==
  (mlast.op = "initialize" /\ target_os \in {"linux", "macos"}) =>
    IF target_os = "linux"
    THEN LinuxChildren(native, native[mlast.ret].children)
           = LinuxNodes(mlast.arg.menu)
    ELSE LET bar == native[mlast.ret].items
         IN /\ Len(bar) = Len(mlast.arg.menu)
            /\ \A m \in 1..Len(bar) :
                 /\ native[native[bar[m]].submenu].title = mlast.arg.menu[m].title
                 /\ MacosChildren(native, native[native[bar[m]].submenu].items)
                      = MacosNodes(mlast.arg.menu[m].items)

\* A GTK menu bar of an item and a submenu that has an item of its own
C14_Witness ==
  /\ mlast.op = "initialize" /\ target_os = "linux"
  /\ Len(native[mlast.ret].children) >= 2
  /\ \E i \in 1..Len(mlast.arg.menu) :
       /\ i > 1
       /\ mlast.arg.menu[i].menu_type = "Submenu"
       /\ mlast.arg.menu[i].sub_menu.menu # <<>>
       /\ mlast.arg.menu[1].menu_type = "Custom"

\* The events an operation pushed onto the channel
Pushed ==
  IF Len(events) >= Len(mlast.events)
       /\ SubSeq(events, 1, Len(mlast.events)) = mlast.events
  THEN SubSeq(events, Len(mlast.events) + 1, Len(events))
  ELSE <<[window_id |-> None, menu_id |-> None, origin |-> "not a push"]>>

\* C15: each activation of a materialized custom item with MenuId id pushes
\* exactly one menu event, carrying that id, onto the event channel, and the
\* activation of a separator pushes none (GTK, macOS and Windows bridges).
C15_OneEventPerActivation ==
  (mlast.op = "activate") =>
    /\ mlast.arg.kind = "Custom" =>
         /\ Len(Pushed) = 1
         /\ Pushed[1].menu_id = mlast.arg.menu_id
    /\ mlast.arg.kind = "Separator" => Pushed = <<>>

AfterTeardown ==
  /\ mlast.op \in {"activate", "late_command"}
  /\ \/ target_os = "windows" /\ mlast.op = "late_command"
          /\ mlast.native[mlast.arg.target].destroyed
     \/ target_os = "macos" /\ mlast.native[mlast.arg.target].dealloced

\* C17: after the window or menu that owns a materialized menu is
\* destroyed, no further menu event is produced: an activation callback or
\* a WM_COMMAND that arrives after teardown emits no event and does not
\* touch the released handler.
C17_NoEventAfterTeardown ==
  AfterTeardown =>
    /\ Pushed = <<>>
    /\ mlast.arg.effect \notin {"use after free", "invalid read"}

\* The menu shells a widget is a child of
ShellsOf(heap, w) ==
  {shell \in 1..Len(heap) :
     \E i \in 1..Len(heap[shell].children) : heap[shell].children[i] = w}

\* C18: the same builder Menu, or a clone of it, can be materialized more
\* than once with independent native resources each time: after two
\* materializations no native item is shared between the two menus, and
\* one activation of a custom item of either still pushes exactly one event.
C18_IndependentMaterializations ==
  (target_os = "linux" /\ mlast.inits >= 2) =>
    /\ \A w \in 1..Len(native) : Cardinality(ShellsOf(native, w)) <= 1
    /\ (mlast.op = "activate" /\ mlast.arg.kind = "Custom") => Len(Pushed) = 1

\* C19: the builder operations add_item, add_native_item and add_submenu
\* only append to the builder's item sequence: they create and modify no
\* native object (no GTK widget, no HMENU entry), so the native objects are
\* what they were until materialization.
C19_BuilderOpsArePure ==
  (mlast.op \in AddOps) => native = mlast.native

\* The native actions the GTK menu bridge has no equivalent for
LinuxUnsupported(node) ==
  /\ node.menu_type = "Native"
  /\ node.menu_item \notin {"Separator", "About", "Hide", "CloseWindow", "Quit",
                            "Copy", "Cut", "SelectAll", "Paste"}

\* The nodes of a builder menu and of its submenus, all and unsupported
RECURSIVE NodeCount(_, _)
NodeCount(self, unsupported) ==
  IF self = <<>> THEN 0
  ELSE LET node == Head(self)
       IN (IF LinuxUnsupported(node) = unsupported THEN 1 ELSE 0)
            + (IF node.menu_type = "Submenu"
               THEN NodeCount(node.sub_menu.menu, unsupported) ELSE 0)
            + NodeCount(Tail(self), unsupported)

\* The native items of a menu shell and of the submenus below it
RECURSIVE NativeCount(_, _)
NativeCount(heap, children) ==
  IF children = <<>> THEN 0
  ELSE 1 + (IF heap[Head(children)].submenu # 0
            THEN NativeCount(heap, heap[heap[Head(children)].submenu].children)
            ELSE 0)
         + NativeCount(heap, Tail(children))

\* The top-level nodes of a kind
Count(items, Test(_)) == Cardinality({i \in 1..Len(items) : Test(items[i])})
StatusSupported(item) == item.variant \in {"Custom", "Separator"}

------------------------------------------------------------------------------
(***************************************************************************)
(* Further properties of Size::clamp, HotKeyManager and the menu bridges   *)
(***************************************************************************)
\* One dimension clamped as the claim words it, in physical pixels
ClampedDimension(a) ==
  LET d == ExactPhysical(call.arg.S, call.arg.desired_size, call.arg.scale_factor)[a]
      lo == ExactPhysical(call.arg.S, call.arg.min, call.arg.scale_factor)[a]
      hi == ExactPhysical(call.arg.S, call.arg.max, call.arg.scale_factor)[a]
  IN IF F64Less(d, lo) THEN lo ELSE IF F64Less(hi, d) THEN hi ELSE d

C26_RegisteredSetAppendOnly ==
  (last.op \in {"register", "is_registered"}) =>
    /\ Len(last.before) <= Len(registered_hotkeys)
    /\ SubSeq(registered_hotkeys, 1, Len(last.before)) = last.before
    /\ \A h \in registered_ok : is_registered(registered_hotkeys, h)
    /\ \A i, j \in 1..Len(registered_hotkeys) :
         registered_hotkeys[i] = registered_hotkeys[j] => i = j

\* The hotkey registered first is still found after two more registrations
C26_Witness ==
  /\ last.op = "is_registered" /\ last.ret = TRUE
  /\ Len(registered_hotkeys) >= 3
  /\ registered_hotkeys[1].inner.hotkey = last.hotkey


\* The calls of process_message so far that belong to the IME session
\* open at the end of hist: the calls after the last one that completed
\* a text (a WM_CHAR/WM_SYSCHAR in a session with no character next in
\* the queue), from the first WM_IME_ENDCOMPOSITION among them onwards.
\* The sequence is empty when no session is open.
Completed(hist) == {i \in 1..Len(hist) : hist[i].completes}
SinceCompletion(hist) ==
  LET done == Completed(hist)
      from == IF done = {} THEN 1
              ELSE 1 + CHOOSE i \in done : \A j \in done : j <= i
  IN SubSeq(hist, from, Len(hist))
RECURSIVE FromFirstEnd(_)
FromFirstEnd(h) ==
  IF h = <<>> THEN <<>>
  ELSE IF h[1].msg.msg_kind = "WM_IME_ENDCOMPOSITION" THEN h
  ELSE FromFirstEnd(Tail(h))
Session(hist) == FromFirstEnd(SinceCompletion(hist))
RECURSIVE Units(_)
Units(h) ==
  IF h = <<>> THEN <<>>
  ELSE (IF IsChar(h[1].msg.msg_kind) THEN <<h[1].msg.wparam % 65536>> ELSE <<>>)
       \o Units(Tail(h))

\* The history before the last call
HistBefore == SubSeq(ime.hist, 1, Len(ime.hist) - 1)

\* A WM_CHAR/WM_SYSCHAR is the next keyboard message waiting for the window
CharPending ==
  \E i \in 1..Len(ime.pending) :
    /\ IsChar(ime.pending[i].msg_kind)
    /\ \A j \in 1..(i - 1) : ~InKeyRange(ime.pending[j].msg_kind)

StatusObjects(heap) ==
  {w \in 1..Len(heap) : heap[w].type \in {"AppIndicator", "GtkMenu", "GtkMenuItem",
                                           "SeparatorMenuItem"}}

\* C23: when the icon path of a status bar has no file stem or no parent
\* directory, build returns an OsError that names the resource ("status bar
\* icon"), and no indicator, no native menu and no activation callback
\* exists afterwards.
C23_NoPartialStateOnIconError ==
  (/\ mlast.op = "Statusbar::initialize"
   /\ (mlast.arg.icon.file_stem = None \/ mlast.arg.icon.parent = None)) =>
    /\ mlast.ret.build.kind = "Err"
    /\ mlast.ret.build.error.file = "status bar icon"
    /\ mlast.ret.build.error.line \in {16, 20}
    /\ StatusObjects(native) = {}
    /\ \A w \in 1..Len(native) : native[w].handlers = <<>>
    /\ native = mlast.native
    /\ events = mlast.events

\* A status bar with a custom item and a separator is built with the icon
\* path "..": the build fails
C23_Witness ==
  /\ mlast.op = "Statusbar::initialize"
  /\ mlast.arg.icon.file_stem = None
  /\ mlast.arg.icon.parent # None
  /\ \E i, j \in 1..Len(mlast.arg.items) :
       mlast.arg.items[i].variant = "Custom" /\ mlast.arg.items[j].variant = "Separator"
  /\ mlast.ret.build.kind = "Err"


\* The w_param of the WM_COMMAND that the last operation gave to
\* subclass_proc while the handler of the window was alive
CommandHandled ==
  /\ target_os = "windows"
  /\ mlast.op \in {"activate", "command"}
  /\ mlast.arg.effect \in {"execute_edit_command", "send_click_event"}
CommandWParam ==
  IF mlast.op = "command" THEN mlast.arg.menu_id ELSE WParam(0, mlast.arg.menu_id)

\* C27: on Windows subclass_proc emits a menu event for a WM_COMMAND exactly
\* when w_param is none of CUT_ID, COPY_ID, PASTE_ID, with menu_id equal to
\* the low 32 bits of w_param; for those three it runs the edit command and
\* emits no event, so a custom item with one of these ids never produces a
\* menu event.
C27_EditIdsAreSwallowed ==
  CommandHandled =>
    LET w == CommandWParam
        fixed == w.hi = 0 /\ w.lo \in {544654, 5465454, 5479854}
    IN /\ fixed => (Pushed = <<>> /\ mlast.arg.effect = "execute_edit_command")
       /\ ~fixed =>
            /\ Len(Pushed) = 1
            /\ Pushed[1].menu_id = w.lo
            /\ Pushed[1].origin = mlast.arg.menu_type
            /\ mlast.arg.effect = "send_click_event"
       /\ (mlast.arg.kind = "Custom" /\ mlast.arg.menu_id \in {544654, 5465454, 5479854})
            => Pushed = <<>>

\* The custom item with MenuId 544654 of a materialized menu is picked
C27_Witness ==
  /\ CommandHandled
  /\ mlast.op = "activate"
  /\ mlast.arg.kind = "Custom"
  /\ mlast.arg.menu_id = CUT_ID
  /\ mlast.arg.effect = "execute_edit_command"
  /\ \E i \in 1..Len(events) : events[i].menu_id = 1


\* The MenuHandler boxes, and the boxes a window still refers to
HandlerBoxes == {b \in 1..Len(native) : native[b].type = "MenuHandler"}
ReferredBoxes == {native[hwnd].subclass : hwnd \in WindowIds}

\* C28: on Windows every MenuHandler boxed by initialize is freed exactly
\* once and never used after it was freed: no message finds a freed box,
\* a box that is not freed is still the reference data of its window (so
\* that WM_DESTROY will free it), and the box of a destroyed window has
\* been freed.
C28_HandlerFreedOnce ==
  (target_os = "windows") =>
    /\ (mlast.op \in {"activate", "command", "late_command", "destroy"}) =>
         mlast.arg.effect \notin {"use after free", "double free"}
    /\ \A b \in HandlerBoxes : ~native[b].freed => b \in ReferredBoxes
    /\ \A hwnd \in WindowIds :
         (native[hwnd].destroyed /\ native[hwnd].subclass # 0) =>
           native[native[hwnd].subclass].freed


\* The live items of class TaoMenuItem whose action is one of the two
\* handlers that call send_event
FiringItems ==
  {i \in 1..Len(native) :
     /\ native[i].type = "TaoMenuItem"
     /\ ~native[i].dealloced
     /\ native[i].action \in {"fireMenubarAction:", "fireStatusbarAction:"}}

\* C29: on macOS send_event only ever reads a non-null Action pointer: no
\* activation reads a null or freed BLOCK_PTR, and every live item whose
\* action is fireMenubarAction: or fireStatusbarAction: (the Services item
\* included) has a BLOCK_PTR that points to an Action that is not freed.
C29_BlockPtrSetOnFiringItems ==
  (target_os = "macos") =>
    /\ (mlast.op = "activate") => mlast.arg.effect # "invalid read"
    /\ \A i \in FiringItems :
         /\ native[i].block_ptr # 0
         /\ ~native[native[i].block_ptr].freed


\* C24: menu events form one ordered stream: the activation of a custom
\* item leaves the events of the earlier activations where they were, in
\* front of its own (so that the event of an item activated before another
\* is delivered before the other's), and adds its event at most once.
C24_OneOrderedStream ==
  (mlast.op = "activate" /\ mlast.arg.kind = "Custom") =>
    /\ Len(events) >= Len(mlast.events)
    /\ SubSeq(events, 1, Len(mlast.events)) = mlast.events
    /\ Len(events) - Len(mlast.events) <= 1
    /\ \A i \in (Len(mlast.events) + 1)..Len(events) :
         events[i].menu_id = mlast.arg.menu_id


------------------------------------------------------------------------------
(***************************************************************************)
(* Properties of the handles of custom items                               *)
(***************************************************************************)
\* The handle the last set_* call was made on
Mutated == handles[mlast.arg.handle]

\* The entry of a Windows handle: the entry of its menu with its id. The
\* properties speak of handles whose id no other handle has.
UniqueId(h) == \A g \in 1..Len(handles) : handles[g].id = handles[h].id => g = h
EntryOf(heap, h) ==
  LET at == FindItem(heap, handles[h].hmenu, handles[h].id, 1)
  IN heap[at[1]].items[at[2]]

\* A custom item is live in a heap: it is an item of a materialized menu
\* that has not been released (a widget in a menu shell; an entry in the
\* menu of a window)
LiveIn(heap, h) ==
  IF target_os = "linux" THEN handles[h].gtk_item \in Shown(heap)
  ELSE /\ ~heap[handles[h].hmenu].destroyed
       /\ \E hwnd \in WindowIds :
            /\ heap[hwnd].menu # 0
            /\ ~heap[hwnd].destroyed
            /\ \E e \in MenuEntries(heap, heap[hwnd].menu) : e[1] = handles[h].hmenu

\* The native state of the item of a handle
NativeEnabled(h) ==
  IF target_os = "linux" THEN native[handles[h].gtk_item].sensitive
  ELSE EntryOf(native, h).flags \cap {"MF_GRAYED", "MF_DISABLED"} = {}
NativeLabel(h) ==
  IF target_os = "linux" THEN native[handles[h].gtk_item].label
  ELSE EntryOf(native, h).text
NativeChecked(h) ==
  IF target_os = "linux" THEN native[handles[h].gtk_item].active
  ELSE "MF_CHECKED" \in EntryOf(native, h).flags

\* C21: on a live custom item set_enabled(b), set_title(t) and
\* set_selected(b) are applied to the native object of the item before the
\* call returns: right after the call the native enabled state is b, the
\* native label is t, the native checked state is b, whatever the item was
\* created with.
C21_MutationsApplied ==
  (/\ mlast.op \in SetOps
   /\ UniqueId(mlast.arg.handle)
   /\ LiveIn(mlast.native, mlast.arg.handle)) =>
    /\ mlast.op = "set_enabled" => NativeEnabled(mlast.arg.handle) = mlast.arg.value
    /\ mlast.op = "set_title" => NativeLabel(mlast.arg.handle) = mlast.arg.value
    /\ mlast.op = "set_selected" => NativeChecked(mlast.arg.handle) = mlast.arg.value

\* C22: a mutation (set_enabled, set_title, set_selected) is only ever
\* applied to an item whose owning menu has not been released: in no run
\* of builder, materialize, destroy and handle calls is a set_* call made
\* on a handle whose menu was destroyed before the call.
C22_NoMutationAfterRelease ==
  (mlast.op \in SetOps /\ target_os = "windows") =>
    ~mlast.native[Mutated.hmenu].destroyed

==============================================================================
